---- MODULE Spec2Model ----
(***************************************************************************)
(* Model of the notemind core: the sensitive-data anonymizer of            *)
(* backend/app/ai.py, the restore traversal of ai.py and main.py, and the  *)
(* hybrid ranker of backend/app/main.py.                                   *)
(*                                                                         *)
(* A text is a sequence of one-character strings.  The regular expressions *)
(* of ai.py are kept as data (a sequence of items) and run by Match, a     *)
(* backtracking matcher with Python's priorities: greedy quantifiers,      *)
(* alternatives tried left to right, leftmost match first.                 *)
(***************************************************************************)
EXTENDS Integers, Sequences, FiniteSets, TLC

VARIABLES
    phase,      \* position of the anonymize / restore pipeline
    text,       \* the caller's original text T
    sensitive,  \* result of detect_sensitive(T), "unknown" before the call
    anon,       \* anonymized text returned by anonymize_sensitive_data
    mapping,    \* insertion-ordered dict placeholder -> original, as a sequence of pairs
    restored,   \* restore_sensitive_data(anon, mapping)
    restored2,  \* restore_sensitive_data(restored, mapping)
    flow,       \* the function that called the provider, "none" before the call
    sent,       \* the user's strings that function placed in the outgoing request
    tphase,     \* position of the tree restore run
    tree,       \* the JSON-like value given to _restore_mapping_in_obj
    tmap,       \* the mapping given to _restore_mapping_in_obj
    outAi,      \* result of ai._restore_mapping_in_obj
    outMain,    \* result of main._restore_mapping_in_obj
    rphase,     \* position of the search run
    notes,      \* the candidate notes given to _semantic_search_notes, in order
    keywords,   \* its keywords argument
    semanticQuery,  \* its semantic_query argument
    queryEmbedding, \* what ai.get_embedding returned for the query
    limit,      \* its limit argument
    offset,     \* its offset argument
    ranked,     \* the ranked list after the sort
    pageItems,  \* the returned page (items)
    total,      \* the returned total
    relPhase,   \* position of the related-notes run
    relNote,    \* the note X given to _related_notes
    relId,      \* the index of X in relCandidates, 0 when X is not in the list
    relCandidates,  \* the notes argument of _related_notes, in order
    relEmbedding,   \* its query_embedding argument
    relLimit,   \* its limit argument
    relRanked,  \* its ranked list after the sort
    relItems,   \* the items it returns
    relTotal,   \* the total it returns
    relMode,    \* the mode it returns
    threshold,  \* LeaderFollowerClusterer.threshold
    clusters,   \* LeaderFollowerClusterer.clusters
    addedNotes, \* the notes given to add_note so far, in call order
    lastCall,   \* the method called last on the clusterer, "init" before any
    summary,    \* what get_micro_clusters_for_llm returned, if it was called last
    anPhase,    \* position of the analyze_note run: "call", "returned" or "raised"
    anEnv,      \* the settings ai.py read from the environment at import
    anContent,  \* the content argument of analyze_note
    anCategories,   \* its categories argument
    anUseAi,    \* its use_ai argument
    anGeneration,   \* the outcome of dashscope.Generation.call, if it was called
    anPost,     \* the outcome of requests.post, if it was called
    anResult,   \* what analyze_note returned
    anError,    \* the exception that left analyze_note, "none" when it returned
    pwPhase,    \* position of the _looks_like_complex_password run
    pwValue,    \* the candidate given to _looks_like_complex_password
    pwResult,   \* what it returned
    ordPhase,   \* position of the run of the two clusterers
    ordThreshold,\* the threshold of both clusterers
    ordNotes,   \* the notes given to both, by id
    ordFirst,   \* the order the first clusterer is given them in
    ordSecond,  \* the order the second clusterer is given them in
    clustersFirst,\* clusters of the first clusterer
    clustersSecond,\* clusters of the second clusterer
    fedFirst,   \* number of add_note calls on the first clusterer
    fedSecond,  \* number of add_note calls on the second clusterer
    serialized, \* whether the two add_note calls run under a single-writer discipline
    conThreshold,   \* the threshold of the shared clusterer
    conPrior,   \* its clusters before the two calls
    conClusters,    \* its clusters, self.clusters
    conNotes,   \* the note of each call
    conPc,      \* the position of each call in add_note
    conScanned, \* the number of clusters the loop of each call has visited
    conBest,    \* best_cluster of each call, as an index, 0 for None
    conBestSim, \* best_sim of each call
    conNewId,   \* len(self.clusters) as each call read it
    mgPhase,    \* position of the summarize_notes / answer_question call
    mgFlow,     \* the function called
    mgUseAi,    \* its use_ai argument
    mgQuestion, \* the question of answer_question
    mgNotes,    \* its notes argument
    mgParts,    \* the result of anonymize_sensitive_data for each text, in call order
    mgMapping,  \* the merged mapping
    mgCompletion, \* the completion the provider gave
    mgResult    \* what the call returned

anonVars == <<phase, text, sensitive, anon, mapping, restored, restored2, flow, sent>>

treeVars == <<tphase, tree, tmap, outAi, outMain>>

rankVars == <<rphase, notes, keywords, semanticQuery, queryEmbedding, limit, offset,
              ranked, pageItems, total>>

relVars == <<relPhase, relNote, relId, relCandidates, relEmbedding, relLimit,
             relRanked, relItems, relTotal, relMode>>

clusterVars == <<threshold, clusters, addedNotes, lastCall, summary>>

analyzeVars == <<anPhase, anEnv, anContent, anCategories, anUseAi, anGeneration, anPost,
                 anResult, anError>>

pwVars == <<pwPhase, pwValue, pwResult>>

orderVars == <<ordPhase, ordThreshold, ordNotes, ordFirst, ordSecond, clustersFirst,
               clustersSecond, fedFirst, fedSecond>>

concurrentVars == <<serialized, conThreshold, conPrior, conClusters, conNotes, conPc,
                    conScanned, conBest, conBestSim, conNewId>>

mergedVars == <<mgPhase, mgFlow, mgUseAi, mgQuestion, mgNotes, mgParts, mgMapping,
                mgCompletion, mgResult>>

otherThanAnon == <<treeVars, rankVars, relVars, clusterVars, analyzeVars, pwVars,
                   orderVars, concurrentVars, mergedVars>>

otherThanTree == <<anonVars, rankVars, relVars, clusterVars, analyzeVars, pwVars,
                   orderVars, concurrentVars, mergedVars>>

otherThanRank == <<anonVars, treeVars, relVars, clusterVars, analyzeVars, pwVars,
                   orderVars, concurrentVars, mergedVars>>

otherThanRelated == <<anonVars, treeVars, rankVars, clusterVars, analyzeVars, pwVars,
                      orderVars, concurrentVars, mergedVars>>

otherThanRankAndRelated == <<anonVars, treeVars, clusterVars, analyzeVars, pwVars,
                             orderVars, concurrentVars, mergedVars>>

otherThanCluster == <<anonVars, treeVars, rankVars, relVars, analyzeVars, pwVars,
                      orderVars, concurrentVars, mergedVars>>

otherThanAnalyze == <<anonVars, treeVars, rankVars, relVars, clusterVars, pwVars,
                      orderVars, concurrentVars, mergedVars>>

otherThanPassword == <<anonVars, treeVars, rankVars, relVars, clusterVars, analyzeVars,
                       orderVars, concurrentVars, mergedVars>>

otherThanOrder == <<anonVars, treeVars, rankVars, relVars, clusterVars, analyzeVars,
                    pwVars, concurrentVars, mergedVars>>

otherThanConcurrent == <<anonVars, treeVars, rankVars, relVars, clusterVars, analyzeVars,
                         pwVars, orderVars, mergedVars>>

otherThanMerged == <<anonVars, treeVars, rankVars, relVars, clusterVars, analyzeVars,
                     pwVars, orderVars, concurrentVars>>

vars == <<anonVars, treeVars, rankVars, relVars, clusterVars, analyzeVars, pwVars,
          orderVars, concurrentVars, mergedVars>>

-----------------------------------------------------------------------------
(* Bounds *)

\* number of atoms concatenated into an input text
MaxAtoms == 3

\* number of distinct values secrets.token_hex(4) can return in the model
PoolSize == 3

-----------------------------------------------------------------------------
(* Characters and character classes *)

Digit == {"0", "1", "2", "3", "4", "5", "6", "7", "8", "9"}

LowerSeq == <<"a", "b", "c", "d", "e", "f", "g", "h", "i", "j", "k", "l", "m",
              "n", "o", "p", "q", "r", "s", "t", "u", "v", "w", "x", "y", "z">>

UpperSeq == <<"A", "B", "C", "D", "E", "F", "G", "H", "I", "J", "K", "L", "M",
              "N", "O", "P", "Q", "R", "S", "T", "U", "V", "W", "X", "Y", "Z">>

Lower == {LowerSeq[n] : n \in 1..Len(LowerSeq)}

Upper == {UpperSeq[n] : n \in 1..Len(UpperSeq)}

Letter == Lower \cup Upper

Alnum == Letter \cup Digit

\* \w
Word == Alnum \cup {"_"}

\* \s
Space == {" ", "\t", "\n"}

HexLower == Digit \cup {"a", "b", "c", "d", "e", "f"}

HexAny == HexLower \cup {"A", "B", "C", "D", "E", "F"}

\* [a-zA-Z0-9_-]
UrlSafe == Alnum \cup {"_", "-"}

\* [\s.-]
PhoneSep == Space \cup {".", "-"}

\* the backquote character, which a TLA+ string cannot hold
Backquote == "bq"

\* the strong-symbol class of _looks_like_complex_password
StrongSymbol == {"!", "@", "#", "$", "%", "^", "&", "*", "(", ")", "+", "=", "[", "]",
                 "{", "}", "|", ":", ";", ",", ".", "?", "/", "~", Backquote}

\* the class of PASSWORD_CANDIDATE_PATTERN: alphanumerics, the strong symbols, _ and -
PasswordChar == Alnum \cup StrongSymbol \cup {"_", "-"}

\* [A-Za-z0-9_+/=\-]
TokenChar == Alnum \cup {"_", "+", "/", "=", "-"}

\* the other case of a letter, the letter itself otherwise (re.I)
OtherCase(c) ==
    IF \E n \in 1..Len(LowerSeq) : LowerSeq[n] = c
    THEN UpperSeq[CHOOSE n \in 1..Len(LowerSeq) : LowerSeq[n] = c]
    ELSE IF \E n \in 1..Len(UpperSeq) : UpperSeq[n] = c
         THEN LowerSeq[CHOOSE n \in 1..Len(UpperSeq) : UpperSeq[n] = c]
         ELSE c

\* str.lower() of one character
LowerTable == [c \in Upper |-> OtherCase(c)]

LowerChar(c) == IF c \in Upper THEN LowerTable[c] ELSE c

-----------------------------------------------------------------------------
(* Regular expressions as data *)

\* hi of an unbounded quantifier (+, *, {n,})
Inf == 0 - 1

\* [set]{lo,hi}, greedy
Cls(set, lo, hi) == [k |-> "cls", in |-> set, neg |-> FALSE, lo |-> lo, hi |-> hi]

\* [^set]{lo,hi}, greedy
NotCls(set, lo, hi) == [k |-> "cls", in |-> set, neg |-> TRUE, lo |-> lo, hi |-> hi]

\* (?:a|b|...) over sequences of items
Alt(opts) == [k |-> "alt", opts |-> opts]

\* zero-width assertion: "b" is \b, "nwb" is (?<!\w), "nwa" is (?!\w), "end" is \Z
Chk(a) == [k |-> "chk", a |-> a]

\* a literal string
Lit(s) == [n \in 1..Len(s) |-> Cls({s[n]}, 1, 1)]

\* a literal string under re.I
LitI(s) == [n \in 1..Len(s) |-> Cls({s[n], OtherCase(s[n])}, 1, 1)]

\* (w1|w2|...) under re.I
AltLitI(words) == Alt([n \in 1..Len(words) |-> LitI(words[n])])

InCls(item, c) == IF item.neg THEN c \notin item.in ELSE c \in item.in

IsWordAt(s, i) == i >= 1 /\ i <= Len(s) /\ s[i] \in Word

Holds(a, s, i) ==
    CASE a = "b" -> IsWordAt(s, i - 1) # IsWordAt(s, i)
      [] a = "nwb" -> ~IsWordAt(s, i - 1)
      [] a = "nwa" -> ~IsWordAt(s, i)
      [] a = "end" -> i = Len(s) + 1

\* number of characters of the class from position i on, at most hi
RECURSIVE RunLen(_, _, _, _)
RunLen(item, s, i, n) ==
    IF i > Len(s) \/ n = item.hi \/ ~InCls(item, s[i]) THEN n
    ELSE RunLen(item, s, i + 1, n + 1)

\* Match(items, s, i): the position after the match of the items at position
\* i of s that the backtracking search finds first, 0 when there is none.
RECURSIVE Match(_, _, _)
RECURSIVE TryLen(_, _, _, _, _)
RECURSIVE TryAlt(_, _, _, _, _)

TryLen(item, rest, s, i, n) ==
    IF n < item.lo THEN 0
    ELSE LET e == Match(rest, s, i + n)
         IN  IF e # 0 THEN e ELSE TryLen(item, rest, s, i, n - 1)

TryAlt(opts, rest, s, i, n) ==
    IF n > Len(opts) THEN 0
    ELSE LET e == Match(opts[n] \o rest, s, i)
         IN  IF e # 0 THEN e ELSE TryAlt(opts, rest, s, i, n + 1)

Match(items, s, i) ==
    IF Len(items) = 0 THEN i
    ELSE LET h == Head(items)
             rest == Tail(items)
         IN  CASE h.k = "cls" -> TryLen(h, rest, s, i, RunLen(h, s, i, 0))
               [] h.k = "alt" -> TryAlt(h.opts, rest, s, i, 1)
               [] h.k = "chk" -> IF Holds(h.a, s, i) THEN Match(rest, s, i) ELSE 0

\* Pattern.fullmatch(value)
FullMatch(items, s) == Match(items \o <<Chk("end")>>, s, 1) # 0

\* Pattern.search(text)
Search(items, s) == \E i \in 1..Len(s) : Match(items, s, i) # 0

\* re.search of a one-character class
HasChar(s, set) == \E i \in 1..Len(s) : s[i] \in set

-----------------------------------------------------------------------------
(* The patterns of ai.py *)

\* ANON_PLACEHOLDER_PATTERN: \bANON_[0-9a-f]{8}\b
ANON_PLACEHOLDER_PATTERN ==
    <<Chk("b")>> \o Lit(<<"A", "N", "O", "N", "_">>) \o <<Cls(HexLower, 8, 8), Chk("b")>>

\* EMAIL_PATTERN: [\w.\-]+@[\w.\-]+\.\w+
EMAIL_PATTERN ==
    <<Cls(Word \cup {".", "-"}, 1, Inf)>> \o Lit(<<"@">>)
        \o <<Cls(Word \cup {".", "-"}, 1, Inf)>> \o Lit(<<".">>) \o <<Cls(Word, 1, Inf)>>

\* PHONE_PATTERN: (?<!\w)(?:\+?\d{1,3}[\s.-]?)?
\*                (?:1[3-9]\d{9}|\(?\d{2,4}\)?[\s.-]?\d{3,4}[\s.-]?\d{4})(?!\w)
PHONE_PATTERN ==
    <<Chk("nwb"),
      Alt(<< <<Cls({"+"}, 0, 1), Cls(Digit, 1, 3), Cls(PhoneSep, 0, 1)>>, <<>> >>),
      Alt(<< <<Cls({"1"}, 1, 1), Cls({"3", "4", "5", "6", "7", "8", "9"}, 1, 1),
               Cls(Digit, 9, 9)>>,
             <<Cls({"("}, 0, 1), Cls(Digit, 2, 4), Cls({")"}, 0, 1), Cls(PhoneSep, 0, 1),
               Cls(Digit, 3, 4), Cls(PhoneSep, 0, 1), Cls(Digit, 4, 4)>> >>),
      Chk("nwa")>>

\* URL_PATTERN: https?://\S+
URL_PATTERN ==
    Lit(<<"h", "t", "t", "p">>) \o <<Cls({"s"}, 0, 1)>> \o Lit(<<":", "/", "/">>) \o <<NotCls(Space, 1, Inf)>>

\* JWT_PATTERN: \beyJ[a-zA-Z0-9_-]+\.[a-zA-Z0-9_-]+\.[a-zA-Z0-9_-]+\b
JWT_PATTERN ==
    <<Chk("b")>> \o Lit(<<"e", "y", "J">>) \o <<Cls(UrlSafe, 1, Inf)>> \o Lit(<<".">>)
        \o <<Cls(UrlSafe, 1, Inf)>> \o Lit(<<".">>) \o <<Cls(UrlSafe, 1, Inf), Chk("b")>>

\* AWS_ACCESS_KEY_PATTERN: \b(?:AKIA|ASIA)[0-9A-Z]{16}\b
AWS_ACCESS_KEY_PATTERN ==
    <<Chk("b"), Alt(<<Lit(<<"A", "K", "I", "A">>), Lit(<<"A", "S", "I", "A">>)>>), Cls(Digit \cup Upper, 16, 16), Chk("b")>>

\* GOOGLE_API_KEY_PATTERN: \bAIza[0-9A-Za-z_-]{35}\b
GOOGLE_API_KEY_PATTERN ==
    <<Chk("b")>> \o Lit(<<"A", "I", "z", "a">>) \o <<Cls(UrlSafe, 35, 35), Chk("b")>>

\* SLACK_TOKEN_PATTERN: \bxox[baprs]-[A-Za-z0-9-]{10,}\b
SLACK_TOKEN_PATTERN ==
    <<Chk("b")>> \o Lit(<<"x", "o", "x">>) \o <<Cls({"b", "a", "p", "r", "s"}, 1, 1)>> \o Lit(<<"-">>)
        \o <<Cls(Alnum \cup {"-"}, 10, Inf), Chk("b")>>

\* GITHUB_TOKEN_PATTERN: \bgh[opsu]_[A-Za-z0-9]{36,}\b
GITHUB_TOKEN_PATTERN ==
    <<Chk("b")>> \o Lit(<<"g", "h">>) \o <<Cls({"o", "p", "s", "u"}, 1, 1)>> \o Lit(<<"_">>)
        \o <<Cls(Alnum, 36, Inf), Chk("b")>>

\* STRIPE_KEY_PATTERN: \bsk_(?:live|test)_[0-9a-zA-Z]{24,}\b
STRIPE_KEY_PATTERN ==
    <<Chk("b")>> \o Lit(<<"s", "k", "_">>) \o <<Alt(<<Lit(<<"l", "i", "v", "e">>), Lit(<<"t", "e", "s", "t">>)>>)>> \o Lit(<<"_">>)
        \o <<Cls(Alnum, 24, Inf), Chk("b")>>

\* LABELLED_SECRET_PATTERN, re.I:
\* (password|passwd|pwd|token|key|secret|api_key|credential)\s*[:=]\s*\S+
LABELLED_SECRET_PATTERN ==
    <<AltLitI(<<<<"p", "a", "s", "s", "w", "o", "r", "d">>,
              <<"p", "a", "s", "s", "w", "d">>,
              <<"p", "w", "d">>,
              <<"t", "o", "k", "e", "n">>,
              <<"k", "e", "y">>,
              <<"s", "e", "c", "r", "e", "t">>,
              <<"a", "p", "i", "_", "k", "e", "y">>,
              <<"c", "r", "e", "d", "e", "n", "t", "i", "a", "l">>>>),
      Cls(Space, 0, Inf), Cls({":", "="}, 1, 1), Cls(Space, 0, Inf), NotCls(Space, 1, Inf)>>

\* INLINE_SECRET_PATTERN, re.I: (password|token|key|secret|pwd)\s+\S+
INLINE_SECRET_PATTERN ==
    <<AltLitI(<<<<"p", "a", "s", "s", "w", "o", "r", "d">>,
              <<"t", "o", "k", "e", "n">>,
              <<"k", "e", "y">>,
              <<"s", "e", "c", "r", "e", "t">>,
              <<"p", "w", "d">>>>),
      Cls(Space, 1, Inf), NotCls(Space, 1, Inf)>>

\* IP_PATTERN: \b\d{1,3}(?:\.\d{1,3}){3}\b
IP_PATTERN ==
    <<Chk("b"), Cls(Digit, 1, 3)>> \o Lit(<<".">>) \o <<Cls(Digit, 1, 3)>> \o Lit(<<".">>)
        \o <<Cls(Digit, 1, 3)>> \o Lit(<<".">>) \o <<Cls(Digit, 1, 3), Chk("b")>>

\* HEX_TOKEN_PATTERN: [a-fA-F0-9]{32,}
HEX_TOKEN_PATTERN == <<Cls(HexAny, 32, Inf)>>

\* BASE64_TOKEN_PATTERN: [A-Za-z0-9+/]{24,}={0,2}
BASE64_TOKEN_PATTERN == <<Cls(Alnum \cup {"+", "/"}, 24, Inf), Cls({"="}, 0, 2)>>

\* TOKEN_CANDIDATE_PATTERN: [A-Za-z0-9_+/=\-]{16,}
TOKEN_CANDIDATE_PATTERN == <<Cls(TokenChar, 16, Inf)>>

\* PASSWORD_CANDIDATE_PATTERN: the password class, {8,}
PASSWORD_CANDIDATE_PATTERN == <<Cls(PasswordChar, 8, Inf)>>

\* the detector chain, in evaluation order
SENSITIVE_PATTERNS ==
    <<LABELLED_SECRET_PATTERN, INLINE_SECRET_PATTERN, IP_PATTERN, EMAIL_PATTERN,
      PHONE_PATTERN, URL_PATTERN, JWT_PATTERN, AWS_ACCESS_KEY_PATTERN,
      GOOGLE_API_KEY_PATTERN, SLACK_TOKEN_PATTERN, GITHUB_TOKEN_PATTERN,
      STRIPE_KEY_PATTERN>>

-----------------------------------------------------------------------------
(* Placeholders and the mapping *)

HexSeq == <<"a", "b", "c", "d", "e", "f", "0", "1", "2", "3", "4", "5", "6", "7", "8", "9">>

\* f"ANON_{secrets.token_hex(4)}" for the n-th value of the pool
Placeholder(n) ==
    <<"A", "N", "O", "N", "_", "0", "0", "0", "0", "0", "0", "0", HexSeq[n]>>

\* the values secrets.token_hex(4) can return
Pool == {Placeholder(n) : n \in 1..PoolSize}

\* _is_placeholder
IsPlaceholder(value) == FullMatch(ANON_PLACEHOLDER_PATTERN, value)

Keys(m) == {m[n][1] : n \in 1..Len(m)}

Values(m) == {m[n][2] : n \in 1..Len(m)}

\* _new_placeholder: the placeholders the loop can return, those not yet in the mapping
NewPlaceholder(m) == Pool \ Keys(m)

\* _count_char_groups
CountCharGroups(value) ==
    (IF HasChar(value, Lower) THEN 1 ELSE 0)
    + (IF HasChar(value, Upper) THEN 1 ELSE 0)
    + (IF HasChar(value, Digit) THEN 1 ELSE 0)
    + (IF \E i \in 1..Len(value) : value[i] \notin Alnum THEN 1 ELSE 0)

\* _looks_like_complex_password
LooksLikeComplexPassword(value) ==
    IF Len(value) < 8 \/ IsPlaceholder(value) THEN FALSE
    ELSE LET groups == CountCharGroups(value)
             has_strong_symbol == HasChar(value, StrongSymbol)
         IN  IF groups >= 4 /\ has_strong_symbol THEN TRUE
             ELSE IF groups >= 3 /\ has_strong_symbol THEN TRUE
             ELSE FALSE

\* _looks_like_token
LooksLikeToken(value) ==
    IF IsPlaceholder(value) THEN FALSE
    ELSE IF FullMatch(HEX_TOKEN_PATTERN, value) THEN TRUE
    ELSE IF FullMatch(BASE64_TOKEN_PATTERN, value) THEN TRUE
    ELSE IF Len(value) < 20 THEN FALSE
    ELSE IF HasChar(value, Letter) /\ HasChar(value, Digit) THEN TRUE
    ELSE IF HasChar(value, Letter) /\ HasChar(value, {"+", "/", "=", "_", "-"}) THEN TRUE
    ELSE FALSE

\* the predicate argument of _replace_candidates and _contains_candidate
Predicate(name, value) ==
    CASE name = "password" -> LooksLikeComplexPassword(value)
      [] name = "token" -> LooksLikeToken(value)

-----------------------------------------------------------------------------
(* anonymize_sensitive_data *)

\* pattern.sub(replace_match, text) from position i on, out being the text
\* produced so far: every outcome [text, mapping], one per choice of the
\* placeholders drawn
RECURSIVE SubFrom(_, _, _, _, _)
SubFrom(pattern, s, i, out, m) ==
    IF i > Len(s) THEN {[text |-> out, mapping |-> m]}
    ELSE LET e == Match(pattern, s, i)
         IN  IF e = 0 THEN SubFrom(pattern, s, i + 1, Append(out, s[i]), m)
             ELSE LET original == SubSeq(s, i, e - 1)
                  IN  IF IsPlaceholder(original)
                      THEN SubFrom(pattern, s, e, out \o original, m)
                      ELSE UNION {SubFrom(pattern, s, e, out \o p,
                                          Append(m, <<p, original>>))
                                  : p \in NewPlaceholder(m)}

\* _replace_candidates from position i on
RECURSIVE ReplaceCandidatesFrom(_, _, _, _, _, _)
ReplaceCandidatesFrom(pattern, predicate, s, i, out, m) ==
    IF i > Len(s) THEN {[text |-> out, mapping |-> m]}
    ELSE LET e == Match(pattern, s, i)
         IN  IF e = 0
             THEN ReplaceCandidatesFrom(pattern, predicate, s, i + 1, Append(out, s[i]), m)
             ELSE LET candidate == SubSeq(s, i, e - 1)
                  IN  IF ~Predicate(predicate, candidate)
                      THEN ReplaceCandidatesFrom(pattern, predicate, s, e,
                                                 out \o candidate, m)
                      ELSE UNION {ReplaceCandidatesFrom(pattern, predicate, s, e, out \o p,
                                                        Append(m, <<p, candidate>>))
                                  : p \in NewPlaceholder(m)}

\* _replace_candidates
ReplaceCandidates(pattern, predicate, outcomes) ==
    UNION {ReplaceCandidatesFrom(pattern, predicate, r.text, 1, <<>>, r.mapping)
           : r \in outcomes}

\* the loop over SENSITIVE_PATTERNS, from the n-th pattern on
RECURSIVE SubAll(_, _)
SubAll(n, outcomes) ==
    IF n > Len(SENSITIVE_PATTERNS) THEN outcomes
    ELSE SubAll(n + 1, UNION {SubFrom(SENSITIVE_PATTERNS[n], r.text, 1, <<>>, r.mapping)
                              : r \in outcomes})

\* anonymize_sensitive_data(text): the set of results (anonymized, mapping)
AnonymizeSensitiveData(s) ==
    ReplaceCandidates(TOKEN_CANDIDATE_PATTERN, "token",
        ReplaceCandidates(PASSWORD_CANDIDATE_PATTERN, "password",
            SubAll(1, {[text |-> s, mapping |-> <<>>]})))

-----------------------------------------------------------------------------
(* restore_sensitive_data and detect_sensitive *)

IsAt(s, old, i) == i + Len(old) - 1 <= Len(s) /\ SubSeq(s, i, i + Len(old) - 1) = old

\* str.replace(old, new) from position i on: every occurrence, left to right,
\* not overlapping
RECURSIVE ReplaceFrom(_, _, _, _, _)
ReplaceFrom(s, old, new, i, out) ==
    IF i > Len(s) THEN out
    ELSE IF IsAt(s, old, i) THEN ReplaceFrom(s, old, new, i + Len(old), out \o new)
    ELSE ReplaceFrom(s, old, new, i + 1, Append(out, s[i]))

StrReplace(s, old, new) == ReplaceFrom(s, old, new, 1, <<>>)

\* the loop of restore_sensitive_data over mapping.items(), from the n-th item on
RECURSIVE RestoreFrom(_, _, _)
RestoreFrom(s, m, n) ==
    IF n > Len(m) THEN s
    ELSE RestoreFrom(StrReplace(s, m[n][1], m[n][2]), m, n + 1)

\* restore_sensitive_data
RestoreSensitiveData(s, m) == RestoreFrom(s, m, 1)

\* _contains_candidate from position i on
RECURSIVE ContainsCandidateFrom(_, _, _, _)
ContainsCandidateFrom(s, pattern, predicate, i) ==
    IF i > Len(s) THEN FALSE
    ELSE LET e == Match(pattern, s, i)
         IN  IF e = 0 THEN ContainsCandidateFrom(s, pattern, predicate, i + 1)
             ELSE IF Predicate(predicate, SubSeq(s, i, e - 1)) THEN TRUE
             ELSE ContainsCandidateFrom(s, pattern, predicate, e)

\* _contains_candidate
ContainsCandidate(s, pattern, predicate) == ContainsCandidateFrom(s, pattern, predicate, 1)

\* detect_sensitive without its two free-floating candidate checks
DetectSensitivePatternsOnly(s) ==
    \E n \in 1..Len(SENSITIVE_PATTERNS) : Search(SENSITIVE_PATTERNS[n], s)

\* detect_sensitive
DetectSensitive(s) ==
    IF \E n \in 1..Len(SENSITIVE_PATTERNS) : Search(SENSITIVE_PATTERNS[n], s) THEN TRUE
    ELSE IF ContainsCandidate(s, PASSWORD_CANDIDATE_PATTERN, "password") THEN TRUE
    ELSE IF ContainsCandidate(s, TOKEN_CANDIDATE_PATTERN, "token") THEN TRUE
    ELSE FALSE

\* s occurs in t
Occurs(s, t) == \E i \in 1..Len(t) : IsAt(t, s, i)

-----------------------------------------------------------------------------
(* Input texts *)

\* the pieces input texts are made of
Atoms ==
    <<<<"k", "e", "y">>,
      <<" ">>,
      <<":">>,
      <<"1", ".", "2", ".", "3", ".", "4">>,
      <<"h", "t", "t", "p", "s", ":", "/", "/">>,
      Placeholder(1),
      <<" ", "_">>>>

RECURSIVE Concat(_)
Concat(pieces) == IF Len(pieces) = 0 THEN <<>> ELSE Head(pieces) \o Concat(Tail(pieces))

\* every concatenation of at most MaxAtoms atoms
Texts ==
    UNION {{Concat([k \in 1..n |-> Atoms[c[k]]]) : c \in [1..n -> 1..Len(Atoms)]}
           : n \in 0..MaxAtoms}

-----------------------------------------------------------------------------------------------------------------------------------------------------
(* The anonymize / restore pipeline and the calls of the provider *)

\* the question of answer_question in the model: "key"
Question == <<"k", "e", "y">>

\* json.dumps of a string: quoted, with the quote, the backslash and the
\* control characters escaped
RECURSIVE JsonEscape(_)
JsonEscape(s) ==
    IF Len(s) = 0 THEN <<>>
    ELSE (CASE Head(s) = "\"" -> <<"\\", "\"">>
            [] Head(s) = "\\" -> <<"\\", "\\">>
            [] Head(s) = "\n" -> <<"\\", "n">>
            [] Head(s) = "\t" -> <<"\\", "t">>
            [] OTHER -> <<Head(s)>>) \o JsonEscape(Tail(s))

JsonDumps(s) == <<"\"">> \o JsonEscape(s) \o <<"\"">>

InitAnon ==
    /\ phase = "input"
    /\ text \in Texts
    /\ sensitive = "unknown"
    /\ anon = <<>>
    /\ mapping = <<>>
    /\ restored = <<>>
    /\ restored2 = <<>>
    /\ flow = "none"
    /\ sent = <<>>

\* detect_sensitive(text)
Detect ==
    /\ phase = "input"
    /\ phase' = "detected"
    /\ sensitive' = DetectSensitive(text)
    /\ UNCHANGED <<text, anon, mapping, restored, restored2, flow, sent>>
    /\ UNCHANGED otherThanAnon

\* anonymized, mapping = anonymize_sensitive_data(text)
Anonymize ==
    /\ phase = "detected"
    /\ \E r \in AnonymizeSensitiveData(text) :
        /\ anon' = r.text
        /\ mapping' = r.mapping
    /\ phase' = "anonymized"
    /\ UNCHANGED <<text, sensitive, restored, restored2, flow, sent>>
    /\ UNCHANGED otherThanAnon

\* restore_sensitive_data(anonymized, mapping)
Restore ==
    /\ phase = "anonymized"
    /\ restored' = RestoreSensitiveData(anon, mapping)
    /\ phase' = "restored"
    /\ UNCHANGED <<text, sensitive, anon, mapping, restored2, flow, sent>>
    /\ UNCHANGED otherThanAnon

\* restore_sensitive_data applied to the restored text again
RestoreAgain ==
    /\ phase = "restored"
    /\ restored2' = RestoreSensitiveData(restored, mapping)
    /\ phase' = "restored2"
    /\ UNCHANGED <<text, sensitive, anon, mapping, restored, flow, sent>>
    /\ UNCHANGED otherThanAnon

\* the provider call of a flow: sent is the user's strings placed in the
\* prompt or the embedding input
Send(name, parts) ==
    /\ phase' = "sent"
    /\ flow' = name
    /\ sent' = parts
    /\ UNCHANGED <<text, sensitive, anon, mapping, restored, restored2>>
    /\ UNCHANGED otherThanAnon

\* parse_search_query(text): the prompt ends with the anonymized query
ParseSearchQuery ==
    /\ phase = "anonymized"
    /\ Send("parse_search_query", <<anon>>)

\* get_embedding(text, already_anonymized=False): the input is the anonymized text
GetEmbedding ==
    /\ phase = "anonymized"
    /\ Send("get_embedding", <<anon>>)

\* summarize_notes([text]): the prompt holds the anonymized notes joined by newlines
SummarizeNotes ==
    /\ phase = "anonymized"
    /\ Send("summarize_notes", <<anon>>)

\* answer_question(Question, [text]): the prompt holds the anonymized question
\* and the anonymized notes
AnswerQuestion ==
    /\ phase = "anonymized"
    /\ \E q \in AnonymizeSensitiveData(Question) :
        Send("answer_question", <<q.text, anon>>)

\* create_note, update_note, rebuild: analyze_note(anonymized) and then
\* get_embedding(_build_embedding_source(anonymized, ...), already_anonymized=True)
CreateNote ==
    /\ phase = "anonymized"
    /\ Send("create_note", <<anon, anon>>)

\* generate_taxonomy_suggestion(micro_clusters), text being a representative
\* title: the prompt holds json.dumps(micro_clusters)
GenerateTaxonomySuggestion ==
    /\ phase = "detected"
    /\ Send("generate_taxonomy_suggestion", <<JsonDumps(text)>>)



-----------------------------------------------------------------------------
(* Properties of the anonymizer *)

\* the matches finditer returns from position i on
RECURSIVE FindAllFrom(_, _, _)
FindAllFrom(pattern, s, i) ==
    IF i > Len(s) THEN {}
    ELSE LET e == Match(pattern, s, i)
         IN  IF e = 0 THEN FindAllFrom(pattern, s, i + 1)
             ELSE {SubSeq(s, i, e - 1)} \cup FindAllFrom(pattern, s, e)

\* the substrings of s the detector chain reports as sensitive
Reported(s) ==
    UNION {FindAllFrom(SENSITIVE_PATTERNS[n], s, 1) : n \in 1..Len(SENSITIVE_PATTERNS)}
    \cup {c \in FindAllFrom(PASSWORD_CANDIDATE_PATTERN, s, 1) : LooksLikeComplexPassword(c)}
    \cup {c \in FindAllFrom(TOKEN_CANDIDATE_PATTERN, s, 1) : LooksLikeToken(c)}

\* C1: round trip: restoring the anonymized text with the mapping of the same
\* call gives back the original text exactly.
RoundTrip == phase \in {"restored", "restored2"} => restored = text

\* C2: no substring the detector chain accepted and replaced occurs verbatim
\* in the anonymized text.
NoAcceptedSubstringLeft ==
    phase = "anonymized" => \A S \in Values(mapping) : ~Occurs(S, anon)

\* C3: no string placed in an outgoing request of any flow contains a
\* substring the detector chain reports as sensitive in the user's text.
NoCleartextLeaves ==
    phase = "sent" =>
        \A n \in 1..Len(sent) : \A S \in Reported(text) : ~Occurs(S, sent[n])

\* C4: no value recorded in the mapping contains a placeholder key of the
\* same mapping: an emitted placeholder is never wrapped again.
NoPlaceholderRewrapped ==
    phase = "anonymized" =>
        \A k \in Keys(mapping) : \A v \in Values(mapping) : ~Occurs(k, v)

\* C5: a generated placeholder never equals a placeholder-shaped token that
\* is already present in the original text.
NoPlaceholderCollision ==
    phase = "anonymized" => \A k \in Keys(mapping) : ~Occurs(k, text)

\* C6: restore is idempotent: restoring the restored text with the same
\* mapping changes nothing.
RestoreIdempotent == phase = "restored2" => restored2 = restored

\* C7: detect_sensitive is true iff anonymize records at least one
\* replacement; when it is false anonymize returns the text unchanged with an
\* empty mapping; the text is the same after detect_sensitive.
DetectAgreesWithAnonymize ==
    phase = "anonymized" =>
        /\ sensitive \in BOOLEAN
        /\ sensitive = (Len(mapping) >= 1)
        /\ (sensitive = FALSE) => (anon = text /\ mapping = <<>>)

\* C7 witness: a text no pattern of SENSITIVE_PATTERNS matches, which
\* detect_sensitive accepts by a free-floating candidate and anonymize replaced
DetectAgreesWitness ==
    /\ phase = "anonymized"
    /\ sensitive = TRUE
    /\ Len(mapping) = 1
    /\ \A n \in 1..Len(SENSITIVE_PATTERNS) : ~Search(SENSITIVE_PATTERNS[n], text)

-----------------------------------------------------------------------------
(* _restore_mapping_in_obj of ai.py and of main.py *)

\* number of nodes of a JSON-like value
MaxNodes == 4

\* a string leaf
Str(s) == [t |-> "str", v |-> s]

\* a leaf that is no string, list or dict: a number, a boolean, None
Other == [t |-> "other", v |-> 0]

\* a list of values
List(items) == [t |-> "list", v |-> items]

\* a dict, its items (key, value) in insertion order
Dict(items) == [t |-> "dict", v |-> items]

\* the keys of the dicts of the model, by position: the first is placeholder-shaped
DictKeys == <<Placeholder(1), <<"b">>, <<"c">>, <<"d">>, <<"e">>, <<"f">>>>

Leaves == {Str(Placeholder(1)), Str(<<"x", ":">> \o Placeholder(2)), Other}

\* the JSON-like values of n nodes, and the sequences of values of m nodes in all
RECURSIVE TreesOfSize(_)
RECURSIVE ForestsOfSize(_)
TreesOfSize(n) ==
    (IF n = 1 THEN Leaves ELSE {})
    \cup {List(f) : f \in ForestsOfSize(n - 1)}
    \cup {Dict([i \in 1..Len(f) |-> <<DictKeys[i], f[i]>>]) : f \in ForestsOfSize(n - 1)}

ForestsOfSize(m) ==
    IF m = 0 THEN {<<>>}
    ELSE UNION {{<<x>> \o f : x \in TreesOfSize(k), f \in ForestsOfSize(m - k)} : k \in 1..m}

Trees == UNION {TreesOfSize(n) : n \in 1..MaxNodes}

\* the mappings given to the traversal: empty, one entry, and two entries
\* the second of which wraps the first placeholder
TreeMappings ==
    {<<>>,
     <<<<Placeholder(1), <<"1", ".", "2", ".", "3", ".", "4">>>>>>,
     <<<<Placeholder(1), <<"1", ".", "2", ".", "3", ".", "4">>>>,
       <<Placeholder(2), <<":">> \o Placeholder(1)>>>>}

\* ai._restore_mapping_in_obj
RECURSIVE RestoreMappingInObjAi(_, _)
RestoreMappingInObjAi(data, m) ==
    IF Len(m) = 0 THEN data
    ELSE CASE data.t = "str" -> Str(RestoreSensitiveData(data.v, m))
           [] data.t = "list" ->
                List([i \in 1..Len(data.v) |-> RestoreMappingInObjAi(data.v[i], m)])
           [] data.t = "dict" ->
                Dict([i \in 1..Len(data.v) |->
                        <<data.v[i][1], RestoreMappingInObjAi(data.v[i][2], m)>>])
           [] OTHER -> data

\* the loop of main._restore_mapping_in_obj over mapping.items(), from the n-th item on
RECURSIVE MainReplaceLoop(_, _, _)
MainReplaceLoop(restoredSoFar, m, n) ==
    IF n > Len(m) THEN restoredSoFar
    ELSE MainReplaceLoop(StrReplace(restoredSoFar, m[n][1], m[n][2]), m, n + 1)

\* main._restore_mapping_in_obj with the items of a list returned as they are
RECURSIVE RestoreMappingInObjMainShallow(_, _)
RestoreMappingInObjMainShallow(data, m) ==
    CASE data.t = "str" -> Str(MainReplaceLoop(data.v, m, 1))
      [] data.t = "list" -> data
      [] data.t = "dict" ->
           Dict([i \in 1..Len(data.v) |->
                   <<data.v[i][1], RestoreMappingInObjMainShallow(data.v[i][2], m)>>])
      [] OTHER -> data

\* main._restore_mapping_in_obj
RECURSIVE RestoreMappingInObjMain(_, _)
RestoreMappingInObjMain(data, m) ==
    CASE data.t = "str" -> Str(MainReplaceLoop(data.v, m, 1))
      [] data.t = "list" ->
           List([i \in 1..Len(data.v) |-> RestoreMappingInObjMain(data.v[i], m)])
      [] data.t = "dict" ->
           Dict([i \in 1..Len(data.v) |->
                   <<data.v[i][1], RestoreMappingInObjMain(data.v[i][2], m)>>])
      [] OTHER -> data

IdleTree ==
    /\ tphase = "off"
    /\ tree = Other
    /\ tmap = <<>>
    /\ outAi = Other
    /\ outMain = Other

InitTree ==
    /\ tphase = "input"
    /\ tree \in Trees
    /\ tmap \in TreeMappings
    /\ outAi = Other
    /\ outMain = Other

\* ai._restore_mapping_in_obj(tree, tmap)
RestoreTreeAi ==
    /\ tphase = "input"
    /\ outAi' = RestoreMappingInObjAi(tree, tmap)
    /\ tphase' = "ai"
    /\ UNCHANGED <<tree, tmap, outMain>>
    /\ UNCHANGED otherThanTree

\* main._restore_mapping_in_obj(tree, tmap)
RestoreTreeMain ==
    /\ tphase = "ai"
    /\ outMain' = RestoreMappingInObjMain(tree, tmap)
    /\ tphase' = "both"
    /\ UNCHANGED <<tree, tmap, outAi>>
    /\ UNCHANGED otherThanTree

-----------------------------------------------------------------------------
(* Exact numbers: <<n, d>> is n/d, d > 0, in lowest terms *)

Abs(n) == IF n < 0 THEN 0 - n ELSE n

RECURSIVE Gcd(_, _)
Gcd(a, b) == IF b = 0 THEN a ELSE Gcd(b, a % b)

Rat(n, d) ==
    LET g == Gcd(Abs(n), Abs(d))
        sgn == IF d < 0 THEN 0 - 1 ELSE 1
    IN  <<(sgn * n) \div g, (sgn * d) \div g>>

RAdd(x, y) == Rat(x[1] * y[2] + y[1] * x[2], x[2] * y[2])

RLess(x, y) == x[1] * y[2] < y[1] * x[2]

RGeq(x, y) == ~RLess(x, y)

Zero == Rat(0, 1)

\* x ** 0.5 of a perfect square
Sqrt(n) == CHOOSE r \in 0..n : r * r = n

-----------------------------------------------------------------------------
(* The ranker: _semantic_search_notes of main.py and what it calls *)

\* number of candidate notes
MaxNotes == 2

\* SEMANTIC_SIMILARITY_THRESHOLD, 0.2 unless the environment sets it
SEMANTIC_SIMILARITY_THRESHOLD == Rat(1, 5)

\* score += 0.25 for a text match
TextMatchBonus == Rat(1, 4)

\* score += 0.05 for each matched keyword after the first
ExtraKeywordBonus(matchedCount) == Rat(matchedCount - 1, 20)

\* score += 0.35 for a direct match
DirectMatchBonus == Rat(7, 20)

\* str.lower()
LowerStr(s) == [n \in 1..Len(s) |-> LowerChar(s[n])]

\* str.strip()
RECURSIVE Strip(_)
Strip(s) ==
    IF Len(s) = 0 THEN s
    ELSE IF Head(s) \in Space THEN Strip(Tail(s))
    ELSE IF s[Len(s)] \in Space THEN Strip(SubSeq(s, 1, Len(s) - 1))
    ELSE s

\* query_lower in field.lower()
InLower(queryLower, field) == Occurs(queryLower, LowerStr(field))

\* _note_matches_query; content is the decrypted content
NoteMatchesQuery(note, query) ==
    LET queryLower == LowerStr(query)
    IN  \/ Len(note.title) > 0 /\ InLower(queryLower, note.title)
        \/ Len(note.short_title) > 0 /\ InLower(queryLower, note.short_title)
        \/ Len(note.content) > 0 /\ InLower(queryLower, note.content)
        \/ Len(note.ai_summary) > 0 /\ InLower(queryLower, note.ai_summary)
        \/ \E n \in 1..Len(note.ai_tags) : InLower(queryLower, note.ai_tags[n])
        \/ \E n \in 1..Len(note.ai_entities) :
              \/ InLower(queryLower, note.ai_entities[n][1])
              \/ InLower(queryLower, note.ai_entities[n][2])

\* the loop of _note_matching_keywords from the n-th keyword on
RECURSIVE MatchingKeywordsFrom(_, _, _, _, _)
MatchingKeywordsFrom(note, kws, n, matches, seen) ==
    IF n > Len(kws) THEN matches
    ELSE LET cleaned == Strip(kws[n])
             lowered == LowerStr(cleaned)
         IN  IF Len(cleaned) = 0 \/ lowered \in seen
             THEN MatchingKeywordsFrom(note, kws, n + 1, matches, seen)
             ELSE MatchingKeywordsFrom(note, kws, n + 1,
                      IF NoteMatchesQuery(note, cleaned)
                      THEN Append(matches, cleaned) ELSE matches,
                      seen \cup {lowered})

\* _note_matching_keywords
NoteMatchingKeywords(note, kws) == MatchingKeywordsFrom(note, kws, 1, <<>>, {})

\* a stored embedding column: NULL, text that is no JSON list, or a JSON list
NullEmbedding == [kind |-> "null", entries |-> <<>>]

NotAList == [kind |-> "other", entries |-> <<>>]

JsonList(entries) == [kind |-> "list", entries |-> entries]

\* an entry of a JSON list: a number, or a value that is no number
NumberEntry(n) == [number |-> TRUE, v |-> n]

JunkEntry == [number |-> FALSE, v |-> 0]

Numbers(vec) == [n \in 1..Len(vec) |-> NumberEntry(vec[n])]

\* _parse_embedding; the empty sequence stands for None
ParseEmbedding(raw) ==
    IF raw.kind # "list" THEN <<>>
    ELSE LET kept == SelectSeq(raw.entries, LAMBDA e : e.number)
         IN  [n \in 1..Len(kept) |-> kept[n].v]

RECURSIVE Dot(_, _)
Dot(a, b) == IF Len(a) = 0 THEN 0 ELSE Head(a) * Head(b) + Dot(Tail(a), Tail(b))

\* _cosine_similarity
CosineSimilarity(vecA, vecB) ==
    IF Len(vecA) = 0 \/ Len(vecB) = 0 \/ Len(vecA) # Len(vecB) THEN Zero
    ELSE LET normA == Sqrt(Dot(vecA, vecA))
             normB == Sqrt(Dot(vecB, vecB))
         IN  IF normA = 0 \/ normB = 0 THEN Zero
             ELSE Rat(Dot(vecA, vecB), normA * normB)

\* keyword_list = keywords or [semantic_query]
KeywordList(kws, query) == IF Len(kws) > 0 THEN kws ELSE <<query>>

\* direct_query_lower
DirectQueryLower(kws, query) == LowerStr(Strip(KeywordList(kws, query)[1]))

\* similarity computed against a vector although the query has none
SimilarityWithoutQuery(note, qe) ==
    CosineSimilarity(IF Len(qe) > 0 THEN qe ELSE <<1, 0, 0, 0>>,
                     ParseEmbedding(note.embedding))

\* similarity of a note in the first loop
Similarity(note, qe) ==
    IF Len(qe) > 0 /\ Len(ParseEmbedding(note.embedding)) > 0
    THEN CosineSimilarity(qe, ParseEmbedding(note.embedding))
    ELSE Zero

\* has_semantic_match with the comparison turned strict
HasSemanticMatchStrict(qe, similarity) ==
    Len(qe) > 0 /\ RLess(SEMANTIC_SIMILARITY_THRESHOLD, similarity)

\* has_semantic_match
HasSemanticMatch(qe, similarity) ==
    Len(qe) > 0 /\ RGeq(similarity, SEMANTIC_SIMILARITY_THRESHOLD)

\* score of a note in the first loop
Score(similarity, matchedCount, directMatch) ==
    LET score1 == IF matchedCount > 0 THEN RAdd(similarity, TextMatchBonus) ELSE similarity
        score2 == IF matchedCount > 1 THEN RAdd(score1, ExtraKeywordBonus(matchedCount))
                  ELSE score1
    IN  IF directMatch THEN RAdd(score2, DirectMatchBonus) ELSE score2

\* direct_match
DirectMatch(directQueryLower, matchedKeywords) ==
    /\ Len(directQueryLower) > 0
    /\ \E k \in 1..Len(matchedKeywords) : LowerStr(matchedKeywords[k]) = directQueryLower

\* the tuple the first loop appends to ranked for the note at index n
Entry(n, matchedKeywords, directMatch, similarity, hasSemanticMatch) ==
    LET textMatch == Len(matchedKeywords) > 0
        matchedCount == Len(matchedKeywords)
        score == Score(similarity, matchedCount, directMatch)
    IN  [note |-> n,
         rank_key |-> <<IF directMatch THEN Rat(1, 1) ELSE Zero,
                        Rat(matchedCount, 1),
                        IF textMatch THEN Rat(1, 1) ELSE Zero,
                        similarity,
                        score>>,
         match_type |-> IF textMatch /\ hasSemanticMatch THEN "keyword+semantic"
                        ELSE IF textMatch THEN "keyword" ELSE "semantic",
         matched_keywords |-> matchedKeywords,
         similarity |-> similarity,
         score |-> score]

\* the first loop from the n-th note on: the entries appended to ranked
RECURSIVE FilterEntries(_, _, _, _, _)
FilterEntries(ns, kws, query, qe, n) ==
    IF n > Len(ns) THEN <<>>
    ELSE LET matchedKeywords == NoteMatchingKeywords(ns[n], KeywordList(kws, query))
             similarity == Similarity(ns[n], qe)
             hasSemanticMatch == HasSemanticMatch(qe, similarity)
         IN  (IF Len(matchedKeywords) > 0 \/ hasSemanticMatch
              THEN <<Entry(n, matchedKeywords,
                           DirectMatch(DirectQueryLower(kws, query), matchedKeywords),
                           similarity, hasSemanticMatch)>>
              ELSE <<>>)
             \o FilterEntries(ns, kws, query, qe, n + 1)

\* the entry the fallback loop appends for the note at index n
FallbackEntry(ns, qe, n) ==
    LET similarity == CosineSimilarity(qe, ParseEmbedding(ns[n].embedding))
    IN  [note |-> n, rank_key |-> <<Zero, Zero, Zero, similarity, similarity>>,
         match_type |-> "semantic", matched_keywords |-> <<>>,
         similarity |-> similarity, score |-> similarity]

\* the fallback loop without its test of the note's embedding
RECURSIVE FallbackEntriesAll(_, _, _)
FallbackEntriesAll(ns, qe, n) ==
    IF n > Len(ns) THEN <<>>
    ELSE <<FallbackEntry(ns, qe, n)>> \o FallbackEntriesAll(ns, qe, n + 1)

\* the fallback loop from the n-th note on
RECURSIVE FallbackEntries(_, _, _)
FallbackEntries(ns, qe, n) ==
    IF n > Len(ns) THEN <<>>
    ELSE (IF Len(ParseEmbedding(ns[n].embedding)) > 0
          THEN <<FallbackEntry(ns, qe, n)>> ELSE <<>>)
         \o FallbackEntries(ns, qe, n + 1)

\* tuple comparison a < b of two rank keys, from component n on
RECURSIVE KeyLess(_, _, _)
KeyLess(a, b, n) ==
    IF n > Len(a) THEN FALSE
    ELSE IF RLess(a[n], b[n]) THEN TRUE
    ELSE IF RLess(b[n], a[n]) THEN FALSE
    ELSE KeyLess(a, b, n + 1)

\* e put into a list sorted by rank key descending, after its equals
RECURSIVE InsertDescending(_, _)
InsertDescending(e, sorted) ==
    IF Len(sorted) = 0 THEN <<e>>
    ELSE IF KeyLess(Head(sorted).rank_key, e.rank_key, 1) THEN <<e>> \o sorted
    ELSE <<Head(sorted)>> \o InsertDescending(e, Tail(sorted))

\* the list left in the order of the loop
Unsorted(r) == r

\* ranked.sort(key=lambda item: item[0], reverse=True): stable
RECURSIVE SortRanked(_)
SortRanked(r) ==
    IF Len(r) = 0 THEN <<>>
    ELSE InsertDescending(r[Len(r)], SortRanked(SubSeq(r, 1, Len(r) - 1)))

\* ranked after both loops and the sort
Ranked(ns, kws, query, qe) ==
    LET first == FilterEntries(ns, kws, query, qe, 1)
    IN  SortRanked(IF Len(first) = 0 /\ Len(qe) > 0
                   THEN FallbackEntries(ns, qe, 1) ELSE first)

\* a slice that ignores the offset
SliceFromStart(r, off, lim) == SubSeq(r, 1, IF lim < Len(r) THEN lim ELSE Len(r))

\* ranked[offset : offset + limit]
Slice(r, off, lim) ==
    SubSeq(r, off + 1, IF off + lim < Len(r) THEN off + lim ELSE Len(r))

Chars3(a, b, c) == <<a, b, c>>

\* the searchable fields of the candidate notes
NoteFields ==
    {[title |-> <<"F", "i", "s", "h">>, short_title |-> <<>>, content |-> <<>>,
      ai_summary |-> <<>>, ai_tags |-> <<>>, ai_entities |-> <<>>],
     [title |-> <<>>, short_title |-> Chars3("C", "a", "t"), content |-> <<>>,
      ai_summary |-> <<>>, ai_tags |-> <<Chars3("p", "e", "t")>>, ai_entities |-> <<>>],
     [title |-> <<>>, short_title |-> <<>>, content |-> <<>>,
      ai_summary |-> <<"a", " ">> \o Chars3("d", "o", "g"), ai_tags |-> <<>>,
      ai_entities |-> <<<<Chars3("p", "e", "t"), Chars3("C", "A", "T")>>>>]}

\* the query embedding the provider returns
QueryVector == <<1, 0, 0, 0>>

\* the stored embeddings of the candidate notes: none, unusable, similarity
\* 1/5, 1/7 and 3/5 to QueryVector, another dimension, and -1 once the entry
\* that is no number is dropped
NoteEmbeddings ==
    {NullEmbedding,
     NotAList,
     JsonList(Numbers(<<1, 2, 2, 4>>)),
     JsonList(Numbers(<<1, 4, 4, 4>>)),
     JsonList(Numbers(<<3, 4, 0, 0>>)),
     JsonList(Numbers(<<1, 0>>)),
     JsonList(<<JunkEntry>> \o Numbers(<<0 - 1, 0, 0, 0>>))}

NoteSet ==
    {[title |-> f.title, short_title |-> f.short_title, content |-> f.content,
      ai_summary |-> f.ai_summary, ai_tags |-> f.ai_tags,
      ai_entities |-> f.ai_entities, embedding |-> e]
     : f \in NoteFields, e \in NoteEmbeddings}

NoteLists == UNION {[1..n -> NoteSet] : n \in 0..MaxNotes}

\* <<keywords, semantic_query>>: no keywords, one keyword, two keywords, and
\* keywords to strip, to skip and to drop as repeated
Queries ==
    {<<<<>>, <<"f", "i", "s", "h">>>>,
     <<<<Chars3("c", "a", "t")>>, Chars3("c", "a", "t")>>,
     <<<<Chars3("d", "o", "g"), Chars3("c", "a", "t")>>, <<"f", "i", "s", "h">>>>,
     <<<<<<" ">> \o Chars3("C", "a", "t") \o <<" ">>, Chars3("c", "a", "t"), <<>>,
         Chars3("d", "o", "g")>>, Chars3("c", "a", "t")>>}

\* what get_embedding returns: None (the empty sequence) or a vector
QueryEmbeddings == {<<>>, QueryVector}

\* <<limit, offset>>: page_size and (page - 1) * page_size of list_notes, one
\* page holding everything and the first three pages of one result
Pages == {<<10, 0>>, <<1, 0>>, <<1, 1>>, <<1, 2>>}

IdleRank ==
    /\ rphase = "off"
    /\ notes = <<>>
    /\ keywords = <<>>
    /\ semanticQuery = <<>>
    /\ queryEmbedding = <<>>
    /\ limit = 0
    /\ offset = 0
    /\ ranked = <<>>
    /\ pageItems = <<>>
    /\ total = 0

InitRank ==
    /\ rphase = "input"
    /\ notes \in NoteLists
    /\ keywords = <<>>
    /\ semanticQuery = <<>>
    /\ queryEmbedding = <<>>
    /\ limit = 0
    /\ offset = 0
    /\ ranked = <<>>
    /\ pageItems = <<>>
    /\ total = 0

\* _semantic_search_notes(notes, semantic_query, keywords, key, limit, offset, use_ai)
SemanticSearchNotes ==
    /\ rphase = "input"
    /\ \E q \in Queries, qe \in QueryEmbeddings :
          /\ keywords' = q[1]
          /\ semanticQuery' = q[2]
          /\ queryEmbedding' = qe
          /\ ranked' = Ranked(notes, q[1], q[2], qe)
          /\ total' = Len(ranked')
          /\ \E page \in Pages :
                /\ limit' = page[1]
                /\ offset' = page[2]
                /\ pageItems' = Slice(ranked', page[2], page[1])
    /\ rphase' = "done"
    /\ UNCHANGED notes
    /\ UNCHANGED otherThanRank

-----------------------------------------------------------------------------
(* _related_notes of main.py and what it calls *)

\* RELATED_KEYWORD_LIMIT, 12 unless the environment sets it
RELATED_KEYWORD_LIMIT == 12

\* WORD_TOKEN_PATTERN: [A-Za-z0-9][A-Za-z0-9_-]{2,}
WORD_TOKEN_PATTERN == <<Cls(Alnum, 1, 1), Cls(UrlSafe, 2, Inf)>>

\* ANON_TAG_PATTERN: anon_[0-9a-f]{8} under re.IGNORECASE
ANON_TAG_PATTERN == LitI(<<"a", "n", "o", "n", "_">>) \o <<Cls(HexAny, 8, 8)>>

\* Pattern.findall(text) from position i on, in order
RECURSIVE FindAllSeq(_, _, _)
FindAllSeq(pattern, s, i) ==
    IF i > Len(s) THEN <<>>
    ELSE LET e == Match(pattern, s, i)
         IN  IF e = 0 THEN FindAllSeq(pattern, s, i + 1)
             ELSE <<SubSeq(s, i, e - 1)>> \o FindAllSeq(pattern, s, e)

\* the pieces of s between the characters of seps, piece being the one under way
RECURSIVE SplitOn(_, _, _)
SplitOn(s, seps, piece) ==
    IF Len(s) = 0 THEN <<piece>>
    ELSE IF Head(s) \in seps THEN <<piece>> \o SplitOn(Tail(s), seps, <<>>)
    ELSE SplitOn(Tail(s), seps, Append(piece, Head(s)))

\* str.split()
Words(s) == SelectSeq(SplitOn(s, Space, <<>>), LAMBDA w : Len(w) > 0)

\* " ".join(pieces)
RECURSIVE JoinWithSpace(_)
JoinWithSpace(pieces) ==
    IF Len(pieces) = 0 THEN <<>>
    ELSE IF Len(pieces) = 1 THEN pieces[1]
    ELSE pieces[1] \o <<" ">> \o JoinWithSpace(Tail(pieces))

\* seq[:n]
Take(seq, n) == SubSeq(seq, 1, IF n < Len(seq) THEN n ELSE Len(seq))

\* _first_non_empty_line
FirstNonEmptyLine(content) ==
    LET lines == SelectSeq(SplitOn(content, {"\n"}, <<>>), LAMBDA l : Len(Strip(l)) > 0)
    IN  IF Len(lines) > 0 THEN Strip(lines[1]) ELSE Strip(content)

\* _normalize_tags of a list of tags
NormalizeTags(tags) ==
    SelectSeq([n \in 1..Len(tags) |-> Strip(tags[n])],
              LAMBDA t : Len(t) > 0 /\ ~Search(ANON_TAG_PATTERN, t))

\* _extract_keywords_from_text; no text of the model has a CJK block, so the
\* CJK loop adds nothing
ExtractKeywordsFromText(txt, lim) ==
    IF Len(txt) = 0 THEN <<>>
    ELSE LET tokens == FindAllSeq(WORD_TOKEN_PATTERN, LowerStr(txt), 1)
             cleaned == Strip(JoinWithSpace(Words(txt)))
         IN  Take(IF Len(tokens) = 0 /\ Len(cleaned) > 0 THEN <<cleaned>> ELSE tokens, lim)

\* the loop of _dedupe_keywords from the n-th item on
RECURSIVE DedupeFrom(_, _, _, _, _)
DedupeFrom(its, lim, n, deduped, seen) ==
    IF n > Len(its) THEN deduped
    ELSE LET cleaned == Strip(its[n])
             lowered == LowerStr(cleaned)
         IN  IF Len(cleaned) = 0 \/ lowered \in seen
             THEN DedupeFrom(its, lim, n + 1, deduped, seen)
             ELSE IF Len(deduped) + 1 >= lim THEN Append(deduped, cleaned)
             ELSE DedupeFrom(its, lim, n + 1, Append(deduped, cleaned),
                             seen \cup {lowered})

\* _dedupe_keywords
DedupeKeywords(its, lim) == DedupeFrom(its, lim, 1, <<>>, {})

\* _build_related_keywords; content is the decrypted content
BuildRelatedKeywords(note) ==
    LET tokens == NormalizeTags(note.ai_tags)
                  \o ExtractKeywordsFromText(note.title, 4)
                  \o ExtractKeywordsFromText(note.short_title, 4)
                  \o ExtractKeywordsFromText(note.ai_summary, 6)
    IN  DedupeKeywords(
            IF Len(tokens) < 6
            THEN tokens \o ExtractKeywordsFromText(FirstNonEmptyLine(note.content), 6)
            ELSE tokens,
            RELATED_KEYWORD_LIMIT)

\* direct_query_lower of _related_notes
RelatedDirectQueryLower(kws) == LowerStr(Strip(IF Len(kws) > 0 THEN kws[1] ELSE <<>>))

\* the tuple _related_notes appends to ranked for the candidate at index n
RelatedEntry(n, matchedKeywords, directMatch, similarity, hasSemanticMatch) ==
    LET textMatch == Len(matchedKeywords) > 0
        matchedCount == Len(matchedKeywords)
        score1 == IF textMatch THEN RAdd(similarity, TextMatchBonus) ELSE similarity
        score2 == IF matchedCount > 1 THEN RAdd(score1, ExtraKeywordBonus(matchedCount))
                  ELSE score1
        score == IF directMatch THEN RAdd(score2, DirectMatchBonus) ELSE score2
    IN  [note |-> n,
         rank_key |-> <<IF directMatch THEN Rat(1, 1) ELSE Zero,
                        Rat(matchedCount, 1),
                        IF textMatch THEN Rat(1, 1) ELSE Zero,
                        similarity,
                        score>>,
         match_type |-> IF textMatch /\ hasSemanticMatch THEN "keyword+semantic"
                        ELSE IF textMatch THEN "keyword" ELSE "semantic",
         matched_keywords |-> matchedKeywords,
         similarity |-> similarity,
         score |-> score]

\* the loop of _related_notes from the n-th candidate on: the entries appended
\* to ranked; xid is the index of the note itself
RECURSIVE RelatedEntries(_, _, _, _, _)
RelatedEntries(ns, xid, kws, qe, n) ==
    IF n > Len(ns) THEN <<>>
    ELSE IF n = xid THEN RelatedEntries(ns, xid, kws, qe, n + 1)
    ELSE LET matchedKeywords ==
                 IF Len(kws) > 0 THEN NoteMatchingKeywords(ns[n], kws) ELSE <<>>
             similarity == Similarity(ns[n], qe)
             hasSemanticMatch == HasSemanticMatch(qe, similarity)
         IN  (IF Len(matchedKeywords) > 0 \/ hasSemanticMatch
              THEN <<RelatedEntry(n, matchedKeywords,
                                  DirectMatch(RelatedDirectQueryLower(kws), matchedKeywords),
                                  similarity, hasSemanticMatch)>>
              ELSE <<>>)
             \o RelatedEntries(ns, xid, kws, qe, n + 1)

\* used_semantic after the loop of _related_notes
UsedSemantic(ns, xid, qe) ==
    \E n \in 1..Len(ns) : n # xid /\ HasSemanticMatch(qe, Similarity(ns[n], qe))

\* a note with no text
BlankFields ==
    [title |-> <<>>, short_title |-> <<>>, content |-> <<>>, ai_summary |-> <<>>,
     ai_tags |-> <<>>, ai_entities |-> <<>>]

\* the notes X that are not in the candidate list
ExternalNotes ==
    {[title |-> f.title, short_title |-> f.short_title, content |-> f.content,
      ai_summary |-> f.ai_summary, ai_tags |-> f.ai_tags,
      ai_entities |-> f.ai_entities, embedding |-> JsonList(Numbers(QueryVector))]
     : f \in NoteFields \cup {BlankFields}}

\* the limit query parameter: 1, and RELATED_DEFAULT_LIMIT
RelatedLimits == {1, 6}

IdleRelated ==
    /\ relPhase = "off"
    /\ relNote = <<>>
    /\ relId = 0
    /\ relCandidates = <<>>
    /\ relEmbedding = <<>>
    /\ relLimit = 0
    /\ relRanked = <<>>
    /\ relItems = <<>>
    /\ relTotal = 0
    /\ relMode = "none"

\* the note X is one of the list or another note; the query embedding is that
\* of X, or None when AI is off
InitRelated ==
    /\ relPhase = "input"
    /\ relCandidates \in NoteLists
    /\ relId \in 0..Len(relCandidates)
    /\ relNote \in (IF relId = 0 THEN ExternalNotes ELSE {relCandidates[relId]})
    /\ relEmbedding \in {<<>>, ParseEmbedding(relNote.embedding)}
    /\ relLimit = 0
    /\ relRanked = <<>>
    /\ relItems = <<>>
    /\ relTotal = 0
    /\ relMode = "none"

\* _related_notes(note, notes, key, query_embedding, limit)
RelatedNotes ==
    /\ relPhase = "input"
    /\ relRanked' = SortRanked(RelatedEntries(relCandidates, relId,
                                              BuildRelatedKeywords(relNote),
                                              relEmbedding, 1))
    /\ relTotal' = Len(relRanked')
    /\ \E lim \in RelatedLimits :
          /\ relLimit' = lim
          /\ relItems' = Slice(relRanked', 0, lim)
    /\ relMode' = IF UsedSemantic(relCandidates, relId, relEmbedding)
                  THEN "semantic" ELSE "keyword"
    /\ relPhase' = "related"
    /\ UNCHANGED <<relNote, relId, relCandidates, relEmbedding>>
    /\ UNCHANGED otherThanRelated

\* the candidates without the one at index xid
Without(ns, xid) ==
    [n \in 1..(Len(ns) - (IF xid > 0 THEN 1 ELSE 0)) |->
        IF xid > 0 /\ n >= xid THEN ns[n + 1] ELSE ns[n]]

\* _semantic_search_notes on the candidates without X, the keywords of X, the
\* same query embedding and limit, offset 0
SearchSameInputs ==
    /\ relPhase = "related"
    /\ rphase = "off"
    /\ notes' = Without(relCandidates, relId)
    /\ keywords' = BuildRelatedKeywords(relNote)
    /\ \E q \in Queries : semanticQuery' = q[2]
    /\ queryEmbedding' = relEmbedding
    /\ limit' = relLimit
    /\ offset' = 0
    /\ ranked' = Ranked(notes', keywords', semanticQuery', queryEmbedding')
    /\ total' = Len(ranked')
    /\ pageItems' = Slice(ranked', 0, relLimit)
    /\ rphase' = "done"
    /\ relPhase' = "both"
    /\ UNCHANGED <<relNote, relId, relCandidates, relEmbedding, relLimit,
                   relRanked, relItems, relTotal, relMode>>
    /\ UNCHANGED otherThanRankAndRelated

-----------------------------------------------------------------------------
(* LeaderFollowerClusterer of clustering.py *)

\* number of add_note calls
MaxAdds == 4

\* cosine_similarity of clustering.py
ClusterCosineSimilarity(v1, v2) ==
    IF Len(v1) = 0 \/ Len(v2) = 0 \/ Len(v1) # Len(v2) THEN Zero
    ELSE LET normA == Sqrt(Dot(v1, v1))
             normB == Sqrt(Dot(v2, v2))
         IN  IF normA = 0 \/ normB = 0 THEN Zero
             ELSE Rat(Dot(v1, v2), normA * normB)

\* note.get("embedding"); the empty sequence stands for None too
NoteGetEmbedding(note) == IF note.has_embedding THEN note.embedding ELSE <<>>

\* note.get("title", "Untitled")
NoteGetTitle(note) == IF note.has_title THEN note.title ELSE "Untitled"

\* the loop of add_note with sim >= self.threshold in place of sim > self.threshold
RECURSIVE BestClusterFromInclusive(_, _, _, _, _, _)
BestClusterFromInclusive(cs, vec, t, n, best, bestSim) ==
    IF n > Len(cs) THEN best
    ELSE LET sim == ClusterCosineSimilarity(vec, cs[n].centroid)
         IN  IF RGeq(sim, t) /\ RLess(bestSim, sim)
             THEN BestClusterFromInclusive(cs, vec, t, n + 1, n, sim)
             ELSE BestClusterFromInclusive(cs, vec, t, n + 1, best, bestSim)

\* the loop of add_note keeping the last of the clusters with the highest
\* similarity
RECURSIVE LastBestClusterFrom(_, _, _, _, _, _)
LastBestClusterFrom(cs, vec, t, n, best, bestSim) ==
    IF n > Len(cs) THEN best
    ELSE LET sim == ClusterCosineSimilarity(vec, cs[n].centroid)
         IN  IF RLess(t, sim) /\ RGeq(sim, bestSim)
             THEN LastBestClusterFrom(cs, vec, t, n + 1, n, sim)
             ELSE LastBestClusterFrom(cs, vec, t, n + 1, best, bestSim)

\* the loop of add_note over self.clusters from the n-th cluster on; best is the
\* index of best_cluster, 0 for None
RECURSIVE BestClusterFrom(_, _, _, _, _, _)
BestClusterFrom(cs, vec, t, n, best, bestSim) ==
    IF n > Len(cs) THEN best
    ELSE LET sim == ClusterCosineSimilarity(vec, cs[n].centroid)
         IN  IF RLess(t, sim) /\ RLess(bestSim, sim)
             THEN BestClusterFrom(cs, vec, t, n + 1, n, sim)
             ELSE BestClusterFrom(cs, vec, t, n + 1, best, bestSim)

\* best_cluster after the loop, with best_sim = -1.0 before it
BestCluster(cs, vec, t) == BestClusterFrom(cs, vec, t, 1, 0, Rat(0 - 1, 1))

\* add_note with the joined cluster's centroid moved to the new member
AddNoteToMovingCentroid(cs, note, t) ==
    LET vec == NoteGetEmbedding(note)
        best == BestCluster(cs, vec, t)
    IN  IF Len(vec) = 0 THEN cs
        ELSE IF best # 0
        THEN [cs EXCEPT ![best].members = Append(@, note), ![best].centroid = vec]
        ELSE Append(cs, [id |-> Len(cs), centroid |-> vec, members |-> <<note>>,
                         leader_title |-> NoteGetTitle(note)])

\* add_note with the new cluster's id taken from the note
AddNoteToIdOfNote(cs, note, t) ==
    LET vec == NoteGetEmbedding(note)
        best == BestCluster(cs, vec, t)
    IN  IF Len(vec) = 0 THEN cs
        ELSE IF best # 0
        THEN [cs EXCEPT ![best].members = Append(@, note)]
        ELSE Append(cs, [id |-> note.id - 1, centroid |-> vec, members |-> <<note>>,
                         leader_title |-> NoteGetTitle(note)])

\* add_note without the test of the embedding
AddNoteToWithoutSkip(cs, note, t) ==
    LET vec == NoteGetEmbedding(note)
        best == BestCluster(cs, vec, t)
    IN  IF best # 0
        THEN [cs EXCEPT ![best].members = Append(@, note)]
        ELSE Append(cs, [id |-> Len(cs), centroid |-> vec, members |-> <<note>>,
                         leader_title |-> NoteGetTitle(note)])

\* add_note appending the note to every cluster that is above the threshold
AddNoteToEveryMatch(cs, note, t) ==
    LET vec == NoteGetEmbedding(note)
        above == {n \in 1..Len(cs) :
                     RLess(t, ClusterCosineSimilarity(vec, cs[n].centroid))}
    IN  IF Len(vec) = 0 THEN cs
        ELSE IF above # {}
        THEN [n \in 1..Len(cs) |->
                 IF n \in above THEN [cs[n] EXCEPT !.members = Append(@, note)] ELSE cs[n]]
        ELSE Append(cs, [id |-> Len(cs), centroid |-> vec, members |-> <<note>>,
                         leader_title |-> NoteGetTitle(note)])

\* self.clusters after add_note(note)
AddNoteTo(cs, note, t) ==
    LET vec == NoteGetEmbedding(note)
        best == BestCluster(cs, vec, t)
    IN  IF Len(vec) = 0 THEN cs
        ELSE IF best # 0
        THEN [cs EXCEPT ![best].members = Append(@, note)]
        ELSE Append(cs, [id |-> Len(cs), centroid |-> vec, members |-> <<note>>,
                         leader_title |-> NoteGetTitle(note)])

\* get_micro_clusters_for_llm with the titles of all members
MicroClustersAllTitles(cs) ==
    [n \in 1..Len(cs) |->
        [cluster_id |-> cs[n].id,
         representative_titles |->
            [k \in 1..Len(cs[n].members) |-> NoteGetTitle(cs[n].members[k])],
         count |-> Len(cs[n].members)]]

\* what get_micro_clusters_for_llm returns
MicroClustersForLlm(cs) ==
    [n \in 1..Len(cs) |->
        [cluster_id |-> cs[n].id,
         representative_titles |->
            [k \in 1..(IF Len(cs[n].members) < 3 THEN Len(cs[n].members) ELSE 3) |->
                NoteGetTitle(cs[n].members[k])],
         count |-> Len(cs[n].members)]]

\* the threshold given to the constructor: the default 0.75, and two others
Thresholds == {Rat(3, 4), Rat(2, 3), Rat(3, 5)}

\* the embeddings of the notes; their cosine similarities are 0, 1/3, 2/3 and 8/9
ClusterVectors == {<<1, 0, 0>>, <<0, 1, 0>>, <<2, 2, 1>>, <<1, 2, 2>>}

\* the titles of the notes, by call number
NoteTitles == <<"n1", "n2", "n3", "n4", "n5", "n6">>

\* the notes the k-th call of add_note may be given: with each embedding, with
\* no title, with an empty embedding and with no embedding
NoteInputs(k) ==
    {[id |-> k, has_embedding |-> TRUE, embedding |-> v, has_title |-> TRUE,
      title |-> NoteTitles[k]] : v \in ClusterVectors \cup {<<>>}}
    \cup {[id |-> k, has_embedding |-> TRUE, embedding |-> <<1, 0, 0>>,
           has_title |-> FALSE, title |-> ""],
          [id |-> k, has_embedding |-> FALSE, embedding |-> <<>>,
           has_title |-> TRUE, title |-> NoteTitles[k]]}

IdleCluster ==
    /\ threshold = Zero
    /\ clusters = <<>>
    /\ addedNotes = <<>>
    /\ lastCall = "off"
    /\ summary = <<>>

\* LeaderFollowerClusterer(threshold)
InitCluster ==
    /\ threshold \in Thresholds
    /\ clusters = <<>>
    /\ addedNotes = <<>>
    /\ lastCall = "init"
    /\ summary = <<>>

\* add_note(note), one call after another
AddNote ==
    /\ lastCall # "off"
    /\ Len(addedNotes) < MaxAdds
    /\ \E note \in NoteInputs(Len(addedNotes) + 1) :
          /\ clusters' = AddNoteTo(clusters, note, threshold)
          /\ addedNotes' = Append(addedNotes, note)
    /\ lastCall' = "add_note"
    /\ summary' = <<>>
    /\ UNCHANGED threshold
    /\ UNCHANGED otherThanCluster

\* get_micro_clusters_for_llm()
GetMicroClustersForLlm ==
    /\ lastCall \in {"init", "add_note"}
    /\ summary' = MicroClustersForLlm(clusters)
    /\ lastCall' = "get_micro_clusters_for_llm"
    /\ UNCHANGED <<threshold, clusters, addedNotes>>
    /\ UNCHANGED otherThanCluster

-----------------------------------------------------------------------------
(* json.loads and _parse_qwen_json *)

\* F applied to the value of e, e being evaluated once
With(e, F(_)) == CHOOSE r \in {F(x) : x \in {e}} : TRUE

\* None, True or False, and an integer as JSON-like values
Null == [t |-> "null", v |-> 0]

Bool(b) == [t |-> "bool", v |-> b]

Num(n) == [t |-> "int", v |-> n]

\* the exception json.loads raises
JSONDecodeError == [t |-> "JSONDecodeError", v |-> 0]

\* the whitespace of JSON
JsonSpace == {" ", "\t", "\n", "\r"}

\* the characters a JSON string cannot hold unescaped
JsonControl == {"\t", "\n", "\r"}

RECURSIVE SkipSpace(_, _)
SkipSpace(s, i) ==
    IF i <= Len(s) /\ s[i] \in JsonSpace THEN SkipSpace(s, i + 1) ELSE i

\* the result of a parsing step: the value and the position after it, or a failure
Parsed(v, i) == [ok |-> TRUE, v |-> v, i |-> i]

Fail == [ok |-> FALSE, v |-> Null, i |-> 0]

\* the character an escape sequence \c stands for, "" when the model has none
\* (\b, \f and \uXXXX do not occur in the texts of the model)
Unescape(c) ==
    CASE c = "\"" -> "\""
      [] c = "\\" -> "\\"
      [] c = "/" -> "/"
      [] c = "n" -> "\n"
      [] c = "t" -> "\t"
      [] c = "r" -> "\r"
      [] OTHER -> ""

\* a JSON string from the position after its opening quote on
RECURSIVE ParseString(_, _, _)
ParseString(s, i, out) ==
    IF i > Len(s) THEN Fail
    ELSE IF s[i] = "\"" THEN Parsed(Str(out), i + 1)
    ELSE IF s[i] = "\\"
         THEN IF i + 1 > Len(s) \/ Unescape(s[i + 1]) = "" THEN Fail
              ELSE ParseString(s, i + 2, Append(out, Unescape(s[i + 1])))
    ELSE IF s[i] \in JsonControl THEN Fail
    ELSE ParseString(s, i + 1, Append(out, s[i]))

DigitSeq == <<"0", "1", "2", "3", "4", "5", "6", "7", "8", "9">>

DigitValue(c) == (CHOOSE n \in 1..Len(DigitSeq) : DigitSeq[n] = c) - 1

\* the digits from position i on
RECURSIVE ParseDigits(_, _, _)
ParseDigits(s, i, n) ==
    IF i <= Len(s) /\ s[i] \in Digit
    THEN ParseDigits(s, i + 1, 10 * n + DigitValue(s[i]))
    ELSE Parsed(Num(n), i)

\* an integer: -?(0|[1-9][0-9]*) (fractions and exponents do not occur in
\* the texts of the model)
ParseNumber(s, i) ==
    LET neg == s[i] = "-"
        j == IF neg THEN i + 1 ELSE i
    IN  IF j > Len(s) \/ s[j] \notin Digit THEN Fail
        ELSE LET r == IF s[j] = "0" THEN Parsed(Num(0), j + 1) ELSE ParseDigits(s, j, 0)
             IN  IF neg THEN Parsed(Num(0 - r.v.v), r.i) ELSE r

\* dict[key] = value on the items of a dict: a key keeps its first position
\* and takes the last value
DictSet(its, key, value) ==
    IF \E n \in 1..Len(its) : its[n][1] = key
    THEN [n \in 1..Len(its) |-> IF its[n][1] = key THEN <<key, value>> ELSE its[n]]
    ELSE Append(its, <<key, value>>)

\* the scanner of json: a value at position i exactly; the members of an
\* object from the position of the next key on; the elements of an array
\* from the position of the next element on
RECURSIVE ParseValue(_, _)
RECURSIVE ParseMembers(_, _, _)
RECURSIVE ParseElements(_, _, _)

ParseValue(s, i) ==
    IF i > Len(s) THEN Fail
    ELSE CASE s[i] = "\"" -> ParseString(s, i + 1, <<>>)
           [] s[i] = "{" ->
                LET j == SkipSpace(s, i + 1)
                IN  IF j <= Len(s) /\ s[j] = "}" THEN Parsed(Dict(<<>>), j + 1)
                    ELSE ParseMembers(s, j, <<>>)
           [] s[i] = "[" ->
                LET j == SkipSpace(s, i + 1)
                IN  IF j <= Len(s) /\ s[j] = "]" THEN Parsed(List(<<>>), j + 1)
                    ELSE ParseElements(s, j, <<>>)
           [] s[i] = "n" ->
                IF IsAt(s, <<"n", "u", "l", "l">>, i) THEN Parsed(Null, i + 4) ELSE Fail
           [] s[i] = "t" ->
                IF IsAt(s, <<"t", "r", "u", "e">>, i) THEN Parsed(Bool(TRUE), i + 4)
                ELSE Fail
           [] s[i] = "f" ->
                IF IsAt(s, <<"f", "a", "l", "s", "e">>, i) THEN Parsed(Bool(FALSE), i + 5)
                ELSE Fail
           [] s[i] \in Digit \cup {"-"} -> ParseNumber(s, i)
           [] OTHER -> Fail

ParseMembers(s, i, its) ==
    IF i > Len(s) \/ s[i] # "\"" THEN Fail
    ELSE With(ParseString(s, i + 1, <<>>), LAMBDA key :
         IF ~key.ok THEN Fail
         ELSE With(SkipSpace(s, key.i), LAMBDA colon :
              IF colon > Len(s) \/ s[colon] # ":" THEN Fail
              ELSE With(ParseValue(s, SkipSpace(s, colon + 1)), LAMBDA value :
                   IF ~value.ok THEN Fail
                   ELSE With(SkipSpace(s, value.i), LAMBDA e :
                        With(DictSet(its, key.v.v, value.v), LAMBDA next :
                        IF e > Len(s) THEN Fail
                        ELSE IF s[e] = "}" THEN Parsed(Dict(next), e + 1)
                        ELSE IF s[e] = ","
                             THEN ParseMembers(s, SkipSpace(s, e + 1), next)
                        ELSE Fail)))))

ParseElements(s, i, its) ==
    With(ParseValue(s, i), LAMBDA value :
    IF ~value.ok THEN Fail
    ELSE With(SkipSpace(s, value.i), LAMBDA e :
         With(Append(its, value.v), LAMBDA next :
         IF e > Len(s) THEN Fail
         ELSE IF s[e] = "]" THEN Parsed(List(next), e + 1)
         ELSE IF s[e] = ","
              THEN ParseElements(s, SkipSpace(s, e + 1), next)
         ELSE Fail)))

\* json.loads(s): the value, or JSONDecodeError
JsonLoads(s) ==
    With(ParseValue(s, SkipSpace(s, 1)), LAMBDA r :
    IF r.ok /\ SkipSpace(s, r.i) = Len(s) + 1 THEN r.v ELSE JSONDecodeError)

\* str.find and str.rfind of one character, with 1 for the first position
\* and 0 for "not found"
Find(s, c) ==
    LET found == {n \in 1..Len(s) : s[n] = c}
    IN  IF found = {} THEN 0 ELSE CHOOSE n \in found : \A m \in found : n <= m

RFind(s, c) ==
    LET found == {n \in 1..Len(s) : s[n] = c}
    IN  IF found = {} THEN 0 ELSE CHOOSE n \in found : \A m \in found : n >= m

\* _parse_qwen_json(raw) of a string: the parsed snippet, None when there is
\* no snippet or json.loads raises JSONDecodeError
ParseQwenJson(raw) ==
    With(Find(raw, "{"), LAMBDA start :
    With(RFind(raw, "}"), LAMBDA end :
    IF start = 0 \/ end = 0 \/ start >= end THEN Null
    ELSE With(JsonLoads(SubSeq(raw, start, end)), LAMBDA loaded :
         IF loaded.t = "JSONDecodeError" THEN Null ELSE loaded)))

\* bool(value)
Truthy(value) ==
    CASE value.t \in {"str", "list", "dict"} -> Len(value.v) > 0
      [] value.t = "bool" -> value.v
      [] value.t = "int" -> value.v # 0
      [] OTHER -> FALSE

-----------------------------------------------------------------------------
(* The heuristic analysis of ai.py *)

\* SHORT_TITLE_MAX_LEN, by default
SHORT_TITLE_MAX_LEN == 32

\* DEFAULT_CATEGORIES
DEFAULT_CATEGORIES ==
    <<<<"c", "r", "e", "d", "e", "n", "t", "i", "a", "l">>,
      <<"w", "o", "r", "k">>,
      <<"i", "d", "e", "a">>,
      <<"t", "o", "d", "o">>>>

\* the loop of _normalize_category_options from the n-th item on
RECURSIVE NormalizeCategoriesFrom(_, _, _)
NormalizeCategoriesFrom(cats, n, normalized) ==
    IF n > Len(cats) THEN normalized
    ELSE LET key == LowerStr(Strip(cats[n]))
         IN  IF Len(key) = 0 \/ \E m \in 1..Len(normalized) : normalized[m] = key
             THEN NormalizeCategoriesFrom(cats, n + 1, normalized)
             ELSE NormalizeCategoriesFrom(cats, n + 1, Append(normalized, key))

\* _normalize_category_options; None and the empty list are both <<>>
NormalizeCategoryOptions(cats) ==
    IF Len(cats) = 0 THEN DEFAULT_CATEGORIES
    ELSE LET normalized == NormalizeCategoriesFrom(cats, 1, <<>>)
         IN  IF Len(normalized) = 0 THEN DEFAULT_CATEGORIES ELSE normalized

\* the alternatives of the three re.search calls of _heuristic_category
CredentialWords ==
    <<<<"t", "o", "k", "e", "n">>,
      <<"p", "a", "s", "s", "w", "o", "r", "d">>,
      <<"p", "a", "s", "s", "w", "d">>,
      <<"p", "w", "d">>,
      <<"s", "e", "c", "r", "e", "t">>,
      <<"s", "s", "h">>,
      <<"i", "p">>,
      <<"c", "r", "e", "d", "e", "n", "t", "i", "a", "l">>>>

TodoWords ==
    <<<<"t", "o", "d", "o">>,
      <<"t", "o", "-", "d", "o">>,
      <<"t", "a", "s", "k">>,
      <<"n", "e", "x", "t">>,
      <<"r", "e", "m", "i", "n", "d">>,
      <<"f", "o", "l", "l", "o", "w", " ", "u", "p">>,
      <<"d", "e", "a", "d", "l", "i", "n", "e">>>>

WorkWords ==
    <<<<"p", "r", "o", "j", "e", "c", "t">>,
      <<"m", "e", "e", "t", "i", "n", "g">>,
      <<"r", "e", "v", "i", "e", "w">>,
      <<"w", "e", "e", "k", "l", "y">>,
      <<"p", "r", "o", "g", "r", "e", "s", "s">>,
      <<"w", "o", "r", "k">>>>

\* re.search of (w1|w2|...) in s
SearchWords(words, s) == \E n \in 1..Len(words) : Occurs(words[n], s)

\* the first option that occurs in lowered, from the n-th option on, the
\* first option of all when there is none
RECURSIVE FirstOptionIn(_, _, _)
FirstOptionIn(options, lowered, n) ==
    IF n > Len(options) THEN options[1]
    ELSE IF Occurs(options[n], lowered) THEN options[n]
    ELSE FirstOptionIn(options, lowered, n + 1)

\* _heuristic_category(text, categories)
HeuristicCategory(txt, cats) ==
    LET lowered == LowerStr(txt)
        default == IF SearchWords(CredentialWords, lowered) THEN DEFAULT_CATEGORIES[1]
                   ELSE IF SearchWords(TodoWords, lowered) THEN DEFAULT_CATEGORIES[4]
                   ELSE IF SearchWords(WorkWords, lowered) THEN DEFAULT_CATEGORIES[2]
                   ELSE DEFAULT_CATEGORIES[3]
        options == NormalizeCategoryOptions(cats)
    IN  IF Len(cats) = 0 THEN default
        ELSE IF \E n \in 1..Len(options) : options[n] = default THEN default
        ELSE FirstOptionIn(options, lowered, 1)

\* the characters of the model in code point order
AsciiOrder ==
    <<"\t", "\n", "\r", " ", "!", "\"", "#", "$", "%", "&", "'", "(", ")",
      "*", "+", ",", "-", ".", "/", "0", "1", "2", "3", "4", "5", "6", "7",
      "8", "9", ":", ";", "<", "=", ">", "?", "@", "A", "B", "C", "D", "E",
      "F", "G", "H", "I", "J", "K", "L", "M", "N", "O", "P", "Q", "R", "S",
      "T", "U", "V", "W", "X", "Y", "Z", "[", "\\", "]", "^", "_", Backquote,
      "a", "b", "c", "d", "e", "f", "g", "h", "i", "j", "k", "l", "m", "n",
      "o", "p", "q", "r", "s", "t", "u", "v", "w", "x", "y", "z", "{", "|",
      "}", "~">>

CharCode ==
    [c \in {AsciiOrder[n] : n \in 1..Len(AsciiOrder)} |->
        CHOOSE n \in 1..Len(AsciiOrder) : AsciiOrder[n] = c]

\* a < b of two strings
RECURSIVE StrLess(_, _)
StrLess(a, b) ==
    IF Len(b) = 0 THEN FALSE
    ELSE IF Len(a) = 0 THEN TRUE
    ELSE IF Head(a) = Head(b) THEN StrLess(Tail(a), Tail(b))
    ELSE CharCode[Head(a)] < CharCode[Head(b)]

\* sorted(strings) of a set of strings
RECURSIVE SortedStrings(_)
SortedStrings(strings) ==
    IF strings = {} THEN <<>>
    ELSE LET least == CHOOSE x \in strings : \A y \in strings \ {x} : StrLess(x, y)
         IN  <<least>> \o SortedStrings(strings \ {least})

\* [A-Za-z][A-Za-z0-9_-]{2,}
TagWordPattern == <<Cls(Letter, 1, 1), Cls(UrlSafe, 2, Inf)>>

\* the words whose presence in the text adds a tag of the same name
TagFlags ==
    <<<<"g", "i", "t", "h", "u", "b">>,
      <<"p", "a", "p", "e", "r">>,
      <<"s", "e", "r", "v", "e", "r">>>>

\* _heuristic_tags(text, category)
HeuristicTags(txt, category) ==
    LET lowered == LowerStr(txt)
        flags == {TagFlags[n] : n \in {m \in 1..Len(TagFlags) : Occurs(TagFlags[m], lowered)}}
        secret == IF Occurs(<<"t", "o", "k", "e", "n">>, lowered)
                     \/ Occurs(<<"p", "a", "s", "s", "w", "o", "r", "d">>, lowered)
                  THEN {<<"s", "e", "c", "r", "e", "t">>} ELSE {}
        words == Take(FindAllSeq(TagWordPattern, txt, 1), 6)
        lowerWords == {LowerStr(words[n]) : n \in 1..Len(words)}
    IN  Take(SortedStrings({category} \cup flags \cup secret \cup lowerWords), 6)

\* re.sub(r"\s+", " ", text): of every run of whitespace the first character
\* is kept, as a blank
CollapseSpaces(s) ==
    LET marked == [n \in 1..Len(s) |->
                      IF s[n] \notin Space THEN <<s[n], TRUE>>
                      ELSE <<" ", n = 1 \/ s[n - 1] \notin Space>>]
        kept == SelectSeq(marked, LAMBDA p : p[2])
    IN  [n \in 1..Len(kept) |-> kept[n][1]]

\* re.sub(r"\s+", " ", text).strip()
Cleaned(txt) == Strip(CollapseSpaces(txt))

Ellipsis == <<".", ".", ".">>

\* _heuristic_summary
HeuristicSummary(txt) ==
    LET cleaned == Cleaned(txt)
    IN  IF Len(cleaned) <= 120 THEN cleaned ELSE SubSeq(cleaned, 1, 117) \o Ellipsis

\* _heuristic_title
HeuristicTitle(txt) ==
    LET cleaned == Cleaned(txt)
    IN  IF Len(cleaned) = 0 THEN <<>>
        ELSE IF Len(cleaned) <= 60 THEN cleaned
        ELSE SubSeq(cleaned, 1, 57) \o Ellipsis

\* str.rstrip()
RECURSIVE RStrip(_)
RStrip(s) ==
    IF Len(s) > 0 /\ s[Len(s)] \in Space THEN RStrip(SubSeq(s, 1, Len(s) - 1)) ELSE s

\* s.rsplit(" ", 1)[0] of a string with a space in it
BeforeLastSpace(s) == SubSeq(s, 1, RFind(s, " ") - 1)

\* _normalize_short_title
NormalizeShortTitle(txt) ==
    LET cleaned == Cleaned(txt)
        trimmed == RStrip(SubSeq(cleaned, 1, SHORT_TITLE_MAX_LEN))
    IN  IF Len(cleaned) = 0 THEN <<>>
        ELSE IF Len(cleaned) <= SHORT_TITLE_MAX_LEN THEN cleaned
        ELSE IF RFind(trimmed, " ") # 0
             THEN (IF Len(RStrip(BeforeLastSpace(trimmed))) > 0
                   THEN RStrip(BeforeLastSpace(trimmed)) ELSE trimmed)
        ELSE trimmed

\* _heuristic_short_title; the line breaks of the model are "\n"
HeuristicShortTitle(txt) ==
    LET lines == SelectSeq(SplitOn(txt, {"\n"}, <<>>), LAMBDA l : Len(Strip(l)) > 0)
    IN  IF Len(lines) > 0 THEN NormalizeShortTitle(Strip(lines[1]))
        ELSE NormalizeShortTitle(txt)

\* list(dict.fromkeys(items)) from the n-th item on
RECURSIVE UniqueFrom(_, _, _)
UniqueFrom(its, n, out) ==
    IF n > Len(its) THEN out
    ELSE IF \E m \in 1..Len(out) : out[m] = its[n] THEN UniqueFrom(its, n + 1, out)
    ELSE UniqueFrom(its, n + 1, Append(out, its[n]))

\* the entry of extract_entities for one pattern: none when nothing matches
EntityEntry(key, pattern, txt) ==
    LET found == UniqueFrom(FindAllSeq(pattern, txt, 1), 1, <<>>)
    IN  IF Len(found) = 0 THEN <<>>
        ELSE <<<<key, List([n \in 1..Len(found) |-> Str(found[n])])>>>>

\* extract_entities
ExtractEntities(txt) ==
    Dict(EntityEntry(<<"i", "p", "s">>, IP_PATTERN, txt)
         \o EntityEntry(<<"e", "m", "a", "i", "l", "s">>, EMAIL_PATTERN, txt)
         \o EntityEntry(<<"p", "h", "o", "n", "e", "s">>, PHONE_PATTERN, txt)
         \o EntityEntry(<<"u", "r", "l", "s">>, URL_PATTERN, txt))

\* the seven keys of an analysis, in the order of the fallback dict
AnalysisKeys ==
    <<<<"s", "h", "o", "r", "t", "_", "t", "i", "t", "l", "e">>,
      <<"t", "i", "t", "l", "e">>,
      <<"c", "a", "t", "e", "g", "o", "r", "y">>,
      <<"t", "a", "g", "s">>,
      <<"s", "u", "m", "m", "a", "r", "y">>,
      <<"e", "n", "t", "i", "t", "i", "e", "s">>,
      <<"s", "e", "n", "s", "i", "t", "i", "v", "i", "t", "y">>>>

High == <<"h", "i", "g", "h">>

Low == <<"l", "o", "w">>

\* the dict analyze_note returns after "fallback to heuristic"
HeuristicAnalysis(txt, cats) ==
    LET category == HeuristicCategory(txt, NormalizeCategoryOptions(cats))
        tags == HeuristicTags(txt, category)
    IN  Dict(<<<<AnalysisKeys[1], Str(HeuristicShortTitle(txt))>>,
               <<AnalysisKeys[2], Str(HeuristicTitle(txt))>>,
               <<AnalysisKeys[3], Str(category)>>,
               <<AnalysisKeys[4], List([n \in 1..Len(tags) |-> Str(tags[n])])>>,
               <<AnalysisKeys[5], Str(HeuristicSummary(txt))>>,
               <<AnalysisKeys[6], ExtractEntities(txt)>>,
               <<AnalysisKeys[7], Str(IF DetectSensitive(txt) THEN High ELSE Low)>>>>)

-----------------------------------------------------------------------------
(* analyze_note and the completion providers *)

\* what a function did: it returned a value, or it raised an exception
Returned(value) == [raised |-> "none", v |-> value]

Raised(name) == [raised |-> name, v |-> Null]

\* a provider call analyze_note did not make
NotCalled == [kind |-> "not called"]

\* _llm_allowed
LlmAllowed(env, useAi) == env.AI_ENABLED /\ useAi

\* _provider_enabled; LLM_API_KEY is TRUE when the key is set
ProviderEnabled(env, provider) == env.LLM_PROVIDER = provider /\ env.LLM_API_KEY

\* _dashscope_ready
DashscopeReady(env) == env.HAS_DASHSCOPE /\ ProviderEnabled(env, "dashscope")

\* whether _openai_request reaches requests.post
OpenaiConfigured(env) ==
    /\ ProviderEnabled(env, "openai") \/ ProviderEnabled(env, "openai_compatible")
    /\ env.LLM_API_BASE_URL

\* _openai_request, post being the outcome of requests.post: a
\* RequestException is caught, response.json() is outside the try block
OpenaiRequest(env, post) ==
    IF ~OpenaiConfigured(env) THEN Returned(Null)
    ELSE IF post.kind = "raises" THEN Returned(Null)
    ELSE IF post.status_code >= 400 THEN Returned(Null)
    ELSE With(JsonLoads(post.body), LAMBDA data :
         IF data.t = "JSONDecodeError" THEN Raised("JSONDecodeError") ELSE Returned(data))

\* a subscript that raised KeyError, IndexError or TypeError
Caught == [t |-> "caught", v |-> 0]

\* value[key] of a string key
Subscript(value, key) ==
    IF value.t = "dict" /\ \E n \in 1..Len(value.v) : value.v[n][1] = key
    THEN value.v[CHOOSE n \in 1..Len(value.v) : value.v[n][1] = key][2]
    ELSE Caught

\* value[0]
First(value) ==
    IF value.t = "list" /\ Len(value.v) > 0 THEN value.v[1]
    ELSE IF value.t = "str" /\ Len(value.v) > 0 THEN Str(<<value.v[1]>>)
    ELSE Caught

\* _openai_chat: data["choices"][0]["message"]["content"].strip(); a content
\* that is no string has no strip
OpenaiChat(env, post) ==
    With(OpenaiRequest(env, post), LAMBDA data :
    IF data.raised # "none" THEN data
    ELSE IF ~Truthy(data.v) THEN Returned(Null)
    ELSE With(Subscript(data.v, <<"c", "h", "o", "i", "c", "e", "s">>), LAMBDA choices :
         With(First(choices), LAMBDA choice :
         With(Subscript(choice, <<"m", "e", "s", "s", "a", "g", "e">>), LAMBDA message :
         With(Subscript(message, <<"c", "o", "n", "t", "e", "n", "t">>), LAMBDA content :
         IF content.t = "caught" THEN Returned(Null)
         ELSE IF content.t = "str" THEN Returned(Str(Strip(content.v)))
         ELSE Raised("AttributeError"))))))

\* the note contents given to analyze_note
AnalyzeContents ==
    {<<>>,
     <<"k", "e", "y", ":", " ", "a", "b", "c", "d">>,
     <<"t", "o", "d", "o", "\n", "\n", " ", "c", "a", "l", "l", " ", " ",
        "b", "o", "b", "@", "x", ".", "i", "o", " ">>,
     <<"\n", " ", "W", "o", "r", "k", " ", "a", "t", " ", "h", "t", "t",
        "p", "s", ":", "/", "/", "a", ".", "b", "/", "c", " ", "1", ".", "2",
        ".", "3", ".", "4">>,
     <<"F", "i", "s", "h", " ", "a", "n", "d", " ", "c", "h", "i", "p", "s">>,
     <<"r", "e", "v", "i", "e", "w", " ", "t", "h", "e", " ", "w", "e", "e",
        "k", "l", "y", " ", "p", "r", "o", "g", "r", "e", "s", "s", " ", "o",
        "f", " ", "t", "h", "e", " ", "t", "e", "a", "m">>}

\* the categories given to analyze_note
AnalyzeCategories ==
    {<<>>,
     <<<<"W", "o", "r", "k", " ">>, <<"p", "e", "t">>, <<"w", "o", "r", "k">>>>,
     <<<<"p", "e", "t">>, <<"f", "i", "s", "h">>>>}

\* analyze_note after the dashscope block: the openai-compatible completion
\* and the heuristic fallback
AnalyzeWithOpenai(env, content, cats, useAi, post) ==
    With(IF LlmAllowed(env, useAi) THEN OpenaiChat(env, post) ELSE Returned(Null),
         LAMBDA response :
         IF response.raised # "none" THEN response
         ELSE IF ~Truthy(response.v) THEN Returned(HeuristicAnalysis(content, cats))
         ELSE With(ParseQwenJson(response.v.v), LAMBDA parsed :
              IF Truthy(parsed) THEN Returned(parsed)
              ELSE Returned(HeuristicAnalysis(content, cats))))

\* analyze_note(content, categories, use_ai), generation being the outcome of
\* dashscope.Generation.call and post the outcome of requests.post
AnalyzeNoteOutcome(env, content, cats, useAi, generation, post) ==
    IF LlmAllowed(env, useAi) /\ DashscopeReady(env)
    THEN IF generation.kind = "raises" THEN Raised(generation.error)
         ELSE IF generation.status_code = 200
              THEN IF generation.content.t # "str" THEN Raised("AttributeError")
                   ELSE With(ParseQwenJson(generation.content.v), LAMBDA parsed :
                        IF Truthy(parsed) THEN Returned(parsed)
                        ELSE AnalyzeWithOpenai(env, content, cats, useAi, post))
         ELSE AnalyzeWithOpenai(env, content, cats, useAi, post)
    ELSE AnalyzeWithOpenai(env, content, cats, useAi, post)

\* the texts a completion can hold, each with what it is: no JSON object
\* ("unparsable"), an empty object ("empty"), an object with keys ("analysis"):
\* one key of the seven, all seven, and a key with a value of another type
CompletionTexts ==
    <<<<"unparsable",
        <<"s", "o", "r", "r", "y">>>>,
      <<"unparsable",
        <<"}", "{">>>>,
      <<"unparsable",
        <<"{", "o", "o", "p", "s", "}">>>>,
      <<"unparsable",
        <<" ", " ">>>>,
      <<"empty",
        <<"{", "}">>>>,
      <<"analysis",
        <<"o", "k", " ", "{", "\"", "t", "i", "t", "l", "e", "\"", ":", " ",
          "\"", "t", "\"", "}", " ", "d", "o", "n", "e">>>>,
      <<"analysis",
        <<"{", "\"", "s", "h", "o", "r", "t", "_", "t", "i", "t", "l", "e",
          "\"", ":", " ", "\"", "s", "\"", ",", " ", "\"", "t", "i", "t",
          "l", "e", "\"", ":", " ", "\"", "t", "\"", ",", " ", "\"", "c",
          "a", "t", "e", "g", "o", "r", "y", "\"", ":", " ", "\"", "i", "d",
          "e", "a", "\"", ",", " ", "\"", "t", "a", "g", "s", "\"", ":", " ",
          "[", "\"", "a", "\"", "]", ",", " ", "\"", "s", "u", "m", "m", "a",
          "r", "y", "\"", ":", " ", "\"", "m", "\"", ",", " ", "\"", "e",
          "n", "t", "i", "t", "i", "e", "s", "\"", ":", " ", "{", "}", ",",
          " ", "\"", "s", "e", "n", "s", "i", "t", "i", "v", "i", "t", "y",
          "\"", ":", " ", "\"", "l", "o", "w", "\"", "}">>>>,
      <<"analysis",
        <<"{", "\"", "t", "a", "g", "s", "\"", ":", " ", "7", "}">>>>>>

\* the outcomes of dashscope.Generation.call: an exception, a non-success
\* status, status 200 with a null content, status 200 with a text
GenerationOutcomes ==
    {[kind |-> "raises", class |-> "exception", error |-> "ConnectionError",
      status_code |-> 0, content |-> Null]}
    \cup {[kind |-> "response", class |-> "status", error |-> "none",
           status_code |-> code, content |-> Null] : code \in {401, 500}}
    \cup {[kind |-> "response", class |-> "null", error |-> "none",
           status_code |-> 200, content |-> Null]}
    \cup {[kind |-> "response", class |-> CompletionTexts[n][1], error |-> "none",
           status_code |-> 200, content |-> Str(CompletionTexts[n][2])]
          : n \in 1..Len(CompletionTexts)}

\* the bodies of a response to requests.post, each with what it is: no JSON
\* or no completion in it ("unparsable"), null or a null content ("null"),
\* and a completion holding one of CompletionTexts
ResponseBodies ==
    <<<<"unparsable",
        <<"<", "h", "t", "m", "l", ">">>>>,
      <<"null",
        <<"n", "u", "l", "l">>>>,
      <<"unparsable",
        <<"{", "}">>>>,
      <<"unparsable",
        <<"[", "1", "]">>>>,
      <<"unparsable",
        <<"{", "\"", "c", "h", "o", "i", "c", "e", "s", "\"", ":", " ", "[",
          "]", "}">>>>,
      <<"unparsable",
        <<"{", "\"", "c", "h", "o", "i", "c", "e", "s", "\"", ":", " ", "\"",
          "x", "\"", "}">>>>,
      <<"null",
        <<"{", "\"", "c", "h", "o", "i", "c", "e", "s", "\"", ":", " ", "[",
          "{", "\"", "m", "e", "s", "s", "a", "g", "e", "\"", ":", " ", "{",
          "\"", "c", "o", "n", "t", "e", "n", "t", "\"", ":", " ", "n", "u",
          "l", "l", "}", "}", "]", "}">>>>,
      <<"unparsable",
        <<"{", "\"", "c", "h", "o", "i", "c", "e", "s", "\"", ":", " ", "[",
          "{", "\"", "m", "e", "s", "s", "a", "g", "e", "\"", ":", " ", "{",
          "\"", "c", "o", "n", "t", "e", "n", "t", "\"", ":", " ", "7", "}",
          "}", "]", "}">>>>,
      <<"unparsable",
        <<"{", "\"", "c", "h", "o", "i", "c", "e", "s", "\"", ":", " ", "[",
          "{", "\"", "m", "e", "s", "s", "a", "g", "e", "\"", ":", " ", "{",
          "\"", "c", "o", "n", "t", "e", "n", "t", "\"", ":", " ", "\"", "s",
          "o", "r", "r", "y", "\"", "}", "}", "]", "}">>>>,
      <<"unparsable",
        <<"{", "\"", "c", "h", "o", "i", "c", "e", "s", "\"", ":", " ", "[",
          "{", "\"", "m", "e", "s", "s", "a", "g", "e", "\"", ":", " ", "{",
          "\"", "c", "o", "n", "t", "e", "n", "t", "\"", ":", " ", "\"", "}",
          "{", "\"", "}", "}", "]", "}">>>>,
      <<"unparsable",
        <<"{", "\"", "c", "h", "o", "i", "c", "e", "s", "\"", ":", " ", "[",
          "{", "\"", "m", "e", "s", "s", "a", "g", "e", "\"", ":", " ", "{",
          "\"", "c", "o", "n", "t", "e", "n", "t", "\"", ":", " ", "\"", "{",
          "o", "o", "p", "s", "}", "\"", "}", "}", "]", "}">>>>,
      <<"unparsable",
        <<"{", "\"", "c", "h", "o", "i", "c", "e", "s", "\"", ":", " ", "[",
          "{", "\"", "m", "e", "s", "s", "a", "g", "e", "\"", ":", " ", "{",
          "\"", "c", "o", "n", "t", "e", "n", "t", "\"", ":", " ", "\"", " ",
          " ", "\"", "}", "}", "]", "}">>>>,
      <<"empty",
        <<"{", "\"", "c", "h", "o", "i", "c", "e", "s", "\"", ":", " ", "[",
          "{", "\"", "m", "e", "s", "s", "a", "g", "e", "\"", ":", " ", "{",
          "\"", "c", "o", "n", "t", "e", "n", "t", "\"", ":", " ", "\"", "{",
          "}", "\"", "}", "}", "]", "}">>>>,
      <<"analysis",
        <<"{", "\"", "c", "h", "o", "i", "c", "e", "s", "\"", ":", " ", "[",
          "{", "\"", "m", "e", "s", "s", "a", "g", "e", "\"", ":", " ", "{",
          "\"", "c", "o", "n", "t", "e", "n", "t", "\"", ":", " ", "\"", "o",
          "k", " ", "{", "\\", "\"", "t", "i", "t", "l", "e", "\\", "\"",
          ":", " ", "\\", "\"", "t", "\\", "\"", "}", " ", "d", "o", "n",
          "e", "\"", "}", "}", "]", "}">>>>,
      <<"analysis",
        <<"{", "\"", "c", "h", "o", "i", "c", "e", "s", "\"", ":", " ", "[",
          "{", "\"", "m", "e", "s", "s", "a", "g", "e", "\"", ":", " ", "{",
          "\"", "c", "o", "n", "t", "e", "n", "t", "\"", ":", " ", "\"", "{",
          "\\", "\"", "s", "h", "o", "r", "t", "_", "t", "i", "t", "l", "e",
          "\\", "\"", ":", " ", "\\", "\"", "s", "\\", "\"", ",", " ", "\\",
          "\"", "t", "i", "t", "l", "e", "\\", "\"", ":", " ", "\\", "\"",
          "t", "\\", "\"", ",", " ", "\\", "\"", "c", "a", "t", "e", "g",
          "o", "r", "y", "\\", "\"", ":", " ", "\\", "\"", "i", "d", "e",
          "a", "\\", "\"", ",", " ", "\\", "\"", "t", "a", "g", "s", "\\",
          "\"", ":", " ", "[", "\\", "\"", "a", "\\", "\"", "]", ",", " ",
          "\\", "\"", "s", "u", "m", "m", "a", "r", "y", "\\", "\"", ":",
          " ", "\\", "\"", "m", "\\", "\"", ",", " ", "\\", "\"", "e", "n",
          "t", "i", "t", "i", "e", "s", "\\", "\"", ":", " ", "{", "}", ",",
          " ", "\\", "\"", "s", "e", "n", "s", "i", "t", "i", "v", "i", "t",
          "y", "\\", "\"", ":", " ", "\\", "\"", "l", "o", "w", "\\", "\"",
          "}", "\"", "}", "}", "]", "}">>>>,
      <<"analysis",
        <<"{", "\"", "c", "h", "o", "i", "c", "e", "s", "\"", ":", " ", "[",
          "{", "\"", "m", "e", "s", "s", "a", "g", "e", "\"", ":", " ", "{",
          "\"", "c", "o", "n", "t", "e", "n", "t", "\"", ":", " ", "\"", "{",
          "\\", "\"", "t", "a", "g", "s", "\\", "\"", ":", " ", "7", "}",
          "\"", "}", "}", "]", "}">>>>>>

\* the outcomes of requests.post: a RequestException, a non-success status,
\* a success status with a body
PostOutcomes ==
    {[kind |-> "raises", class |-> "exception", status_code |-> 0, body |-> <<>>]}
    \cup {[kind |-> "response", class |-> "status", status_code |-> code,
           body |-> ResponseBodies[3][2]] : code \in {401, 500}}
    \cup {[kind |-> "response", class |-> ResponseBodies[n][1], status_code |-> 200,
           body |-> ResponseBodies[n][2]] : n \in 1..Len(ResponseBodies)}

\* the environments: AI_ENABLED, LLM_PROVIDER, whether LLM_API_KEY and
\* LLM_API_BASE_URL are set, whether dashscope can be imported
Environments ==
    [AI_ENABLED : BOOLEAN,
     LLM_PROVIDER : {"dashscope", "openai", "openai_compatible", "ollama"},
     LLM_API_KEY : BOOLEAN,
     LLM_API_BASE_URL : BOOLEAN,
     HAS_DASHSCOPE : BOOLEAN]

IdleAnalyze ==
    /\ anPhase = "off"
    /\ anEnv = [AI_ENABLED |-> FALSE, LLM_PROVIDER |-> "dashscope", LLM_API_KEY |-> FALSE,
                LLM_API_BASE_URL |-> FALSE, HAS_DASHSCOPE |-> FALSE]
    /\ anContent = <<>>
    /\ anCategories = <<>>
    /\ anUseAi = FALSE
    /\ anGeneration = NotCalled
    /\ anPost = NotCalled
    /\ anResult = Null
    /\ anError = "none"

InitAnalyze ==
    /\ anPhase = "call"
    /\ anEnv \in Environments
    /\ anContent \in AnalyzeContents
    /\ anCategories \in AnalyzeCategories
    /\ anUseAi \in BOOLEAN
    /\ anGeneration = NotCalled
    /\ anPost = NotCalled
    /\ anResult = Null
    /\ anError = "none"

\* analyze_note(content, categories, use_ai) with the providers' outcomes;
\* LLM_PROVIDER names one provider, so requests.post is reached only when the
\* dashscope block is skipped
AnalyzeNote ==
    /\ anPhase = "call"
    /\ LET viaDashscope == LlmAllowed(anEnv, anUseAi) /\ DashscopeReady(anEnv)
           viaOpenai == LlmAllowed(anEnv, anUseAi) /\ OpenaiConfigured(anEnv)
       IN  \E generation \in IF viaDashscope THEN GenerationOutcomes ELSE {NotCalled},
              post \in IF viaOpenai THEN PostOutcomes ELSE {NotCalled} :
              \E outcome \in {AnalyzeNoteOutcome(anEnv, anContent, anCategories, anUseAi,
                                                 generation, post)} :
                  /\ anGeneration' = generation
                  /\ anPost' = post
                  /\ anPhase' = IF outcome.raised = "none" THEN "returned" ELSE "raised"
                  /\ anResult' = outcome.v
                  /\ anError' = outcome.raised
    /\ UNCHANGED <<anEnv, anContent, anCategories, anUseAi>>
    /\ UNCHANGED otherThanAnalyze

-----------------------------------------------------------------------------
(* _looks_like_complex_password applied to a candidate *)

\* number of characters of a candidate that are drawn freely
MaxLead == 4

\* the characters the candidates are made of: a lower-case letter, an
\* upper-case letter, a digit, the two characters of
\* PASSWORD_CANDIDATE_PATTERN that are no strong symbols, two strong symbols
CandidateChars == {"a", "B", "1", "_", "-", "!", "/"}

\* lead followed by its first character up to n characters
PadTo(lead, n) == [k \in 1..n |-> IF k <= Len(lead) THEN lead[k] ELSE lead[1]]

\* a placeholder and texts close to one
PlaceholderLike ==
    {<<"A", "N", "O", "N", "_", "0", "a", "1", "b", "2", "c", "3", "d">>,
     <<"A", "N", "O", "N", "_", "0", "a", "1", "b", "2", "c", "3", "!">>,
     <<"A", "N", "O", "N", "_", "0", "A", "1", "B", "2", "C", "3", "D">>,
     <<"x", "A", "N", "O", "N", "_", "0", "a", "1", "b", "2", "c", "3", "d">>}

\* the candidates: 7 to 9 characters long with up to MaxLead characters chosen
\* freely, and the texts around a placeholder
PasswordCandidates ==
    {PadTo(lead, n) : lead \in UNION {[1..k -> CandidateChars] : k \in 1..MaxLead},
                      n \in {7, 8, 9}}
    \cup PlaceholderLike

IdlePassword ==
    /\ pwPhase = "off"
    /\ pwValue = <<>>
    /\ pwResult = FALSE

InitPassword ==
    /\ pwPhase = "call"
    /\ pwValue \in PasswordCandidates
    /\ pwResult = FALSE

\* _looks_like_complex_password(value)
LooksLikeComplexPasswordCall ==
    /\ pwPhase = "call"
    /\ pwResult' = LooksLikeComplexPassword(pwValue)
    /\ pwPhase' = "done"
    /\ UNCHANGED pwValue
    /\ UNCHANGED otherThanPassword

-----------------------------------------------------------------------------
(* Two clusterers given the same notes, each in an order of its own *)

\* number of notes given to each of the two clusterers
MaxOrder == 3

\* the notes of a run: one per position, each with one of the embeddings
OrderNotes ==
    {[k \in 1..MaxOrder |->
        [id |-> k, has_embedding |-> TRUE, embedding |-> vs[k], has_title |-> TRUE,
         title |-> NoteTitles[k]]] : vs \in [1..MaxOrder -> ClusterVectors]}

\* the orders of MaxOrder notes
Orders == {p \in [1..MaxOrder -> 1..MaxOrder] : \A i, j \in 1..MaxOrder : p[i] = p[j] => i = j}

IdleOrder ==
    /\ ordPhase = "off"
    /\ ordThreshold = Zero
    /\ ordNotes = <<>>
    /\ ordFirst = <<>>
    /\ ordSecond = <<>>
    /\ clustersFirst = <<>>
    /\ clustersSecond = <<>>
    /\ fedFirst = 0
    /\ fedSecond = 0

\* two clusterers LeaderFollowerClusterer(threshold) and the notes for them:
\* the first is given the notes in the order of their ids, the second in any
\* order
InitOrder ==
    /\ ordPhase = "run"
    /\ ordThreshold \in Thresholds
    /\ ordNotes \in OrderNotes
    /\ ordFirst = [k \in 1..MaxOrder |-> k]
    /\ ordSecond \in Orders
    /\ clustersFirst = <<>>
    /\ clustersSecond = <<>>
    /\ fedFirst = 0
    /\ fedSecond = 0

\* add_note on the second clusterer, keeping the last of the best clusters
AddNoteSecondLastBest ==
    /\ ordPhase = "run"
    /\ fedSecond < MaxOrder
    /\ \E note \in {ordNotes[ordSecond[fedSecond + 1]]} :
       \E best \in {LastBestClusterFrom(clustersSecond, note.embedding, ordThreshold, 1, 0,
                                         Rat(0 - 1, 1))} :
          clustersSecond' =
              IF best # 0
              THEN [clustersSecond EXCEPT ![best].members = Append(@, note)]
              ELSE Append(clustersSecond,
                          [id |-> Len(clustersSecond), centroid |-> note.embedding,
                           members |-> <<note>>, leader_title |-> NoteGetTitle(note)])
    /\ fedSecond' = fedSecond + 1
    /\ UNCHANGED <<ordPhase, ordThreshold, ordNotes, ordFirst, ordSecond, clustersFirst,
                   fedFirst>>
    /\ UNCHANGED otherThanOrder

\* add_note on the first clusterer with the next note of its order
AddNoteFirst ==
    /\ ordPhase = "run"
    /\ fedFirst < MaxOrder
    /\ clustersFirst' = AddNoteTo(clustersFirst, ordNotes[ordFirst[fedFirst + 1]], ordThreshold)
    /\ fedFirst' = fedFirst + 1
    /\ UNCHANGED <<ordPhase, ordThreshold, ordNotes, ordFirst, ordSecond, clustersSecond,
                   fedSecond>>
    /\ UNCHANGED otherThanOrder

\* add_note on the second clusterer with the next note of its order
AddNoteSecond ==
    /\ ordPhase = "run"
    /\ fedSecond < MaxOrder
    /\ clustersSecond' =
          AddNoteTo(clustersSecond, ordNotes[ordSecond[fedSecond + 1]], ordThreshold)
    /\ fedSecond' = fedSecond + 1
    /\ UNCHANGED <<ordPhase, ordThreshold, ordNotes, ordFirst, ordSecond, clustersFirst,
                   fedFirst>>
    /\ UNCHANGED otherThanOrder

-----------------------------------------------------------------------------
(* Two calls of add_note on one clusterer, their steps interleaved *)

\* number of notes added to the clusterer before the two calls
MaxPrior == 1

\* the two calls
Callers == {1, 2}

\* the clusters after add_note of each of the notes ns in turn, from cs on
RECURSIVE AddAll(_, _, _)
AddAll(cs, ns, t) ==
    IF Len(ns) = 0 THEN cs ELSE AddAll(AddNoteTo(cs, Head(ns), t), Tail(ns), t)

\* the note of the given id with the given embedding
ClusterNote(ident, vec) ==
    [id |-> ident, has_embedding |-> TRUE, embedding |-> vec, has_title |-> TRUE,
     title |-> NoteTitles[ident]]

\* the notes added before the two calls, with ids from 3 on
PriorNotes ==
    UNION {{[k \in 1..n |-> ClusterNote(k + 2, vs[k])] : vs \in [1..n -> ClusterVectors]}
           : n \in 0..MaxPrior}

IdleConcurrent ==
    /\ serialized = FALSE
    /\ conThreshold = Zero
    /\ conPrior = <<>>
    /\ conClusters = <<>>
    /\ conNotes = <<>>
    /\ conPc = <<>>
    /\ conScanned = <<>>
    /\ conBest = <<>>
    /\ conBestSim = <<>>
    /\ conNewId = <<>>

\* a clusterer that holds the clusters of the prior notes, and two calls of
\* add_note about to start, under a single-writer discipline or not
InitConcurrent ==
    /\ serialized \in BOOLEAN
    /\ conThreshold \in Thresholds
    /\ \E prior \in PriorNotes : conPrior = AddAll(<<>>, prior, conThreshold)
    /\ conClusters = conPrior
    /\ conNotes \in {<<ClusterNote(1, v1), ClusterNote(2, v2)>> :
                        v1 \in ClusterVectors \cup {<<>>}, v2 \in ClusterVectors}
    /\ conPc = [c \in Callers |-> "start"]
    /\ conScanned = [c \in Callers |-> 0]
    /\ conBest = [c \in Callers |-> 0]
    /\ conBestSim = [c \in Callers |-> Rat(0 - 1, 1)]
    /\ conNewId = [c \in Callers |-> 0]

\* under the single-writer discipline a call takes a step only while the
\* other call has not started or has returned
MayStep(c) ==
    serialized => \A other \in Callers \ {c} : conPc[other] \in {"start", "done"}

\* an append of a new cluster whose id is the one of the note
AppendClusterIdOfNote(c) ==
    /\ conPc[c] = "append"
    /\ MayStep(c)
    /\ conClusters' = Append(conClusters,
                              [id |-> conNotes[c].id, centroid |-> NoteGetEmbedding(conNotes[c]),
                               members |-> <<conNotes[c]>>,
                               leader_title |-> NoteGetTitle(conNotes[c])])
    /\ conPc' = [conPc EXCEPT ![c] = "done"]
    /\ UNCHANGED <<serialized, conThreshold, conPrior, conNotes, conScanned, conBest,
                   conBestSim, conNewId>>
    /\ UNCHANGED otherThanConcurrent

\* vec = note.get("embedding"); if not vec: return
ReadEmbedding(c) ==
    /\ conPc[c] = "start"
    /\ MayStep(c)
    /\ conPc' = [conPc EXCEPT ![c] = IF Len(NoteGetEmbedding(conNotes[c])) = 0
                                THEN "done" ELSE "scan"]
    /\ UNCHANGED <<serialized, conThreshold, conPrior, conClusters, conNotes, conScanned,
                   conBest, conBestSim, conNewId>>
    /\ UNCHANGED otherThanConcurrent

\* one iteration of the loop over self.clusters, the list as it is now
ScanCluster(c) ==
    /\ conPc[c] = "scan"
    /\ MayStep(c)
    /\ conScanned[c] < Len(conClusters)
    /\ \E sim \in {ClusterCosineSimilarity(NoteGetEmbedding(conNotes[c]),
                                             conClusters[conScanned[c] + 1].centroid)} :
          IF RLess(conThreshold, sim) /\ RLess(conBestSim[c], sim)
          THEN /\ conBestSim' = [conBestSim EXCEPT ![c] = sim]
               /\ conBest' = [conBest EXCEPT ![c] = conScanned[c] + 1]
          ELSE UNCHANGED <<conBestSim, conBest>>
    /\ conScanned' = [conScanned EXCEPT ![c] = @ + 1]
    /\ UNCHANGED <<serialized, conThreshold, conPrior, conClusters, conNotes, conPc, conNewId>>
    /\ UNCHANGED otherThanConcurrent

\* the loop ends; best_cluster["members"].append(note) when there is one
EndScan(c) ==
    /\ conPc[c] = "scan"
    /\ MayStep(c)
    /\ conScanned[c] >= Len(conClusters)
    /\ IF conBest[c] # 0
       THEN /\ conClusters' = [conClusters EXCEPT ![conBest[c]].members =
                                   Append(@, conNotes[c])]
            /\ conPc' = [conPc EXCEPT ![c] = "done"]
       ELSE /\ conPc' = [conPc EXCEPT ![c] = "create"]
            /\ UNCHANGED conClusters
    /\ UNCHANGED <<serialized, conThreshold, conPrior, conNotes, conScanned, conBest,
                   conBestSim, conNewId>>
    /\ UNCHANGED otherThanConcurrent

\* "id": len(self.clusters) of the new cluster
ReadLength(c) ==
    /\ conPc[c] = "create"
    /\ MayStep(c)
    /\ conNewId' = [conNewId EXCEPT ![c] = Len(conClusters)]
    /\ conPc' = [conPc EXCEPT ![c] = "append"]
    /\ UNCHANGED <<serialized, conThreshold, conPrior, conClusters, conNotes, conScanned,
                   conBest, conBestSim>>
    /\ UNCHANGED otherThanConcurrent

\* self.clusters.append(new_cluster)
AppendCluster(c) ==
    /\ conPc[c] = "append"
    /\ MayStep(c)
    /\ conClusters' = Append(conClusters,
                              [id |-> conNewId[c], centroid |-> NoteGetEmbedding(conNotes[c]),
                               members |-> <<conNotes[c]>>,
                               leader_title |-> NoteGetTitle(conNotes[c])])
    /\ conPc' = [conPc EXCEPT ![c] = "done"]
    /\ UNCHANGED <<serialized, conThreshold, conPrior, conNotes, conScanned, conBest,
                   conBestSim, conNewId>>
    /\ UNCHANGED otherThanConcurrent

-----------------------------------------------------------------------------
(* summarize_notes and answer_question with the mappings of several texts *)

\* number of notes given to summarize_notes and answer_question
MaxMerged == 2

\* dict[key] = value on a mapping
SetItem(m, key, value) ==
    IF key \in Keys(m)
    THEN [n \in 1..Len(m) |-> IF m[n][1] = key THEN <<key, value>> ELSE m[n]]
    ELSE Append(m, <<key, value>>)

\* a merge that keeps the value a key already has
RECURSIVE MappingUpdateKeepingFirst(_, _)
MappingUpdateKeepingFirst(m, other) ==
    IF Len(other) = 0 THEN m
    ELSE MappingUpdateKeepingFirst(
             IF Head(other)[1] \in Keys(m) THEN m ELSE Append(m, Head(other)),
             Tail(other))

\* mapping.update(other)
RECURSIVE MappingUpdate(_, _)
MappingUpdate(m, other) ==
    IF Len(other) = 0 THEN m
    ELSE MappingUpdate(SetItem(m, Head(other)[1], Head(other)[2]), Tail(other))

\* the mapping after mapping.update of the mapping of each part in turn
RECURSIVE MergedMapping(_, _)
MergedMapping(m, parts) ==
    IF Len(parts) = 0 THEN m
    ELSE MergedMapping(MappingUpdate(m, Head(parts).mapping), Tail(parts))

\* the results anonymize_sensitive_data can give for each of the texts in turn
AnonymizeEach(texts) ==
    {parts \in [1..Len(texts) -> UNION {AnonymizeSensitiveData(texts[n]) : n \in 1..Len(texts)}] :
        \A n \in 1..Len(texts) : parts[n] \in AnonymizeSensitiveData(texts[n])}

\* "\n".join(pieces)
RECURSIVE JoinLines(_)
JoinLines(pieces) ==
    IF Len(pieces) = 0 THEN <<>>
    ELSE IF Len(pieces) = 1 THEN pieces[1]
    ELSE pieces[1] \o <<"\n">> \o JoinLines(Tail(pieces))

\* what summarize_notes returns for no notes
NoNotesFound ==
    <<"N", "o", " ", "n", "o", "t", "e", "s", " ", "f", "o", "u", "n", "d",
      " ", "f", "o", "r", " ", "t", "h", "e", " ", "s", "e", "l", "e", "c",
      "t", "e", "d", " ", "p", "e", "r", "i", "o", "d", ".">>

\* f"Summary ({days} days): " of summarize_notes(notes, 7)
SummaryPrefix ==
    <<"S", "u", "m", "m", "a", "r", "y", " ", "(", "7", " ", "d", "a", "y",
      "s", ")", ":", " ">>

\* what summarize_notes returns without a completion
SummaryFallback(ns) == SummaryPrefix \o Take(JoinLines(ns), 400) \o <<".", ".", ".">>

\* what answer_question returns for no notes
NoMatchingNotes ==
    <<"N", "o", " ", "m", "a", "t", "c", "h", "i", "n", "g", " ", "n", "o",
      "t", "e", "s", " ", "f", "o", "u", "n", "d", ".">>

\* the completions of the provider: none, or a text that repeats one of the
\* anonymized texts of the prompt or all of them
Completions(parts) ==
    {[kind |-> "none", text |-> <<>>]}
    \cup {[kind |-> "text", text |-> parts[n].text] : n \in 1..Len(parts)}
    \cup {[kind |-> "text", text |-> JoinLines([n \in 1..Len(parts) |-> parts[n].text])]}

\* the notes and the questions of the calls
MergedNoteTexts ==
    {<<"1", ".", "2", ".", "3", ".", "4">>,
     <<"k", "e", "y", ":", " ", "a", "b">>,
     <<"h", "i">>}

MergedQuestions ==
    {<<"w", "h", "o">>,
     <<"a", "t", " ", "5", ".", "6", ".", "7", ".", "8">>}

IdleMerged ==
    /\ mgPhase = "off"
    /\ mgFlow = "none"
    /\ mgUseAi = FALSE
    /\ mgQuestion = <<>>
    /\ mgNotes = <<>>
    /\ mgParts = <<>>
    /\ mgMapping = <<>>
    /\ mgCompletion = [kind |-> "none", text |-> <<>>]
    /\ mgResult = <<>>

InitMerged ==
    /\ mgPhase = "call"
    /\ mgFlow \in {"summarize_notes", "answer_question"}
    /\ mgUseAi \in BOOLEAN
    /\ mgQuestion \in (IF mgFlow = "answer_question" THEN MergedQuestions ELSE {<<>>})
    /\ mgNotes \in UNION {[1..n -> MergedNoteTexts] : n \in 0..MaxMerged}
    /\ mgParts = <<>>
    /\ mgMapping = <<>>
    /\ mgCompletion = [kind |-> "none", text |-> <<>>]
    /\ mgResult = <<>>

\* the call returned result after anonymizing parts and getting completion
MergedReturns(parts, completion, result) ==
    /\ mgPhase' = "returned"
    /\ mgParts' = parts
    /\ mgMapping' = MergedMapping(<<>>, parts)
    /\ mgCompletion' = completion
    /\ mgResult' = result
    /\ UNCHANGED <<mgFlow, mgUseAi, mgQuestion, mgNotes>>
    /\ UNCHANGED otherThanMerged

\* summarize_notes(notes, 7, use_ai); AI_ENABLED is true and a provider is
\* configured, the provider gives a completion or none
SummarizeNotesMerged ==
    /\ mgPhase = "call"
    /\ mgFlow = "summarize_notes"
    /\ IF Len(mgNotes) = 0
       THEN MergedReturns(<<>>, [kind |-> "none", text |-> <<>>], NoNotesFound)
       ELSE IF ~mgUseAi
       THEN MergedReturns(<<>>, [kind |-> "none", text |-> <<>>], SummaryFallback(mgNotes))
       ELSE \E parts \in AnonymizeEach(mgNotes) :
            \E completion \in Completions(parts) :
                MergedReturns(parts, completion,
                    IF completion.kind = "text" /\ Len(Strip(completion.text)) > 0
                    THEN RestoreSensitiveData(Strip(completion.text),
                                              MergedMapping(<<>>, parts))
                    ELSE SummaryFallback(mgNotes))

\* answer_question(question, notes, use_ai); the first part is the question
AnswerQuestionMerged ==
    /\ mgPhase = "call"
    /\ mgFlow = "answer_question"
    /\ IF Len(mgNotes) = 0
       THEN MergedReturns(<<>>, [kind |-> "none", text |-> <<>>], NoMatchingNotes)
       ELSE IF ~mgUseAi
       THEN MergedReturns(<<>>, [kind |-> "none", text |-> <<>>], Take(mgNotes[1], 200))
       ELSE \E parts \in AnonymizeEach(<<mgQuestion>> \o mgNotes) :
            \E completion \in Completions(parts) :
                MergedReturns(parts, completion,
                    IF completion.kind = "text" /\ Len(Strip(completion.text)) > 0
                    THEN RestoreSensitiveData(Strip(completion.text),
                                              MergedMapping(<<>>, parts))
                    ELSE Take(mgNotes[1], 200))

-----------------------------------------------------------------------------
(* Specifications *)

IdleAnon ==
    /\ phase = "off"
    /\ text = <<>>
    /\ sensitive = "unknown"
    /\ anon = <<>>
    /\ mapping = <<>>
    /\ restored = <<>>
    /\ restored2 = <<>>
    /\ flow = "none"
    /\ sent = <<>>

Init == InitAnon /\ IdleTree /\ IdleRank /\ IdleRelated /\ IdleCluster /\ IdleAnalyze
    /\ IdlePassword /\ IdleOrder /\ IdleConcurrent /\ IdleMerged

Next ==
    \/ Detect
    \/ Anonymize
    \/ Restore
    \/ RestoreAgain
    \/ ParseSearchQuery
    \/ GetEmbedding
    \/ SummarizeNotes
    \/ AnswerQuestion
    \/ CreateNote
    \/ GenerateTaxonomySuggestion

Spec == Init /\ [][Next]_vars

InitTreeRun == IdleAnon /\ InitTree /\ IdleRank /\ IdleRelated /\ IdleCluster /\ IdleAnalyze
    /\ IdlePassword /\ IdleOrder /\ IdleConcurrent /\ IdleMerged

NextTree == RestoreTreeAi \/ RestoreTreeMain

SpecTree == InitTreeRun /\ [][NextTree]_vars

InitRankRun == IdleAnon /\ IdleTree /\ InitRank /\ IdleRelated /\ IdleCluster /\ IdleAnalyze
    /\ IdlePassword /\ IdleOrder /\ IdleConcurrent /\ IdleMerged

NextRank == SemanticSearchNotes

SpecRank == InitRankRun /\ [][NextRank]_vars

InitRelatedRun == IdleAnon /\ IdleTree /\ IdleRank /\ InitRelated /\ IdleCluster /\ IdleAnalyze
    /\ IdlePassword /\ IdleOrder /\ IdleConcurrent /\ IdleMerged

NextRelated == RelatedNotes \/ SearchSameInputs

SpecRelated == InitRelatedRun /\ [][NextRelated]_vars

InitClusterRun == IdleAnon /\ IdleTree /\ IdleRank /\ IdleRelated /\ InitCluster /\ IdleAnalyze
    /\ IdlePassword /\ IdleOrder /\ IdleConcurrent /\ IdleMerged

NextCluster == AddNote \/ GetMicroClustersForLlm

SpecCluster == InitClusterRun /\ [][NextCluster]_vars

InitAnalyzeRun ==
    IdleAnon /\ IdleTree /\ IdleRank /\ IdleRelated /\ IdleCluster /\ InitAnalyze
    /\ IdlePassword /\ IdleOrder /\ IdleConcurrent /\ IdleMerged

NextAnalyze == AnalyzeNote

SpecAnalyze == InitAnalyzeRun /\ [][NextAnalyze]_vars

InitPasswordRun ==
    IdleAnon /\ IdleTree /\ IdleRank /\ IdleRelated /\ IdleCluster /\ IdleAnalyze
    /\ InitPassword /\ IdleOrder /\ IdleConcurrent /\ IdleMerged

NextPassword == LooksLikeComplexPasswordCall

SpecPassword == InitPasswordRun /\ [][NextPassword]_vars

InitOrderRun ==
    IdleAnon /\ IdleTree /\ IdleRank /\ IdleRelated /\ IdleCluster /\ IdleAnalyze
    /\ IdlePassword /\ InitOrder /\ IdleConcurrent /\ IdleMerged

NextOrder == AddNoteFirst \/ AddNoteSecond

SpecOrder == InitOrderRun /\ [][NextOrder]_vars

InitConcurrentRun ==
    IdleAnon /\ IdleTree /\ IdleRank /\ IdleRelated /\ IdleCluster /\ IdleAnalyze
    /\ IdlePassword /\ IdleOrder /\ InitConcurrent /\ IdleMerged

NextConcurrent ==
    \E c \in Callers :
        \/ ReadEmbedding(c)
        \/ ScanCluster(c)
        \/ EndScan(c)
        \/ ReadLength(c)
        \/ AppendCluster(c)

SpecConcurrent == InitConcurrentRun /\ [][NextConcurrent]_vars

InitMergedRun ==
    IdleAnon /\ IdleTree /\ IdleRank /\ IdleRelated /\ IdleCluster /\ IdleAnalyze
    /\ IdlePassword /\ IdleOrder /\ IdleConcurrent /\ InitMerged

NextMerged == SummarizeNotesMerged \/ AnswerQuestionMerged

SpecMerged == InitMergedRun /\ [][NextMerged]_vars

-----------------------------------------------------------------------------
(* Properties of the tree restore *)

\* out is data with every string leaf restored and everything else as it was
RECURSIVE LeavesRestored(_, _, _)
LeavesRestored(data, out, m) ==
    /\ out.t = data.t
    /\ CASE data.t = "str" -> out.v = RestoreSensitiveData(data.v, m)
         [] data.t = "list" ->
              /\ Len(out.v) = Len(data.v)
              /\ \A i \in 1..Len(data.v) : LeavesRestored(data.v[i], out.v[i], m)
         [] data.t = "dict" ->
              /\ Len(out.v) = Len(data.v)
              /\ \A i \in 1..Len(data.v) :
                    /\ out.v[i][1] = data.v[i][1]
                    /\ LeavesRestored(data.v[i][2], out.v[i][2], m)
         [] OTHER -> out = data

\* C8: both traversals replace every string leaf, at any depth, by its
\* restore_sensitive_data and keep shape, order, keys and other leaves; they
\* return equal results.
TreeRestoreCorrect ==
    tphase = "both" =>
        /\ LeavesRestored(tree, outAi, tmap)
        /\ LeavesRestored(tree, outMain, tmap)
        /\ outAi = outMain

\* C8 witness: a dict with a placeholder-shaped key holding a list that holds
\* a string with a placeholder and a non-string leaf, restored by both
TreeRestoreWitness ==
    /\ tphase = "both"
    /\ tree = Dict(<<<<DictKeys[1], List(<<Str(Placeholder(1)), Other>>)>>>>)
    /\ Len(tmap) = 2
    /\ outMain # tree
    /\ outAi = outMain

-----------------------------------------------------------------------------
(* Properties of the ranker *)

\* the indices of the notes in a ranked list
RankedNotes(r) == {r[n].note : n \in 1..Len(r)}

\* the keywords _note_matching_keywords finds, for every candidate text and
\* every query of the search
KeywordHits ==
    {<<f, q, NoteMatchingKeywords(f, KeywordList(q[1], q[2]))>> :
        f \in NoteFields, q \in Queries}

\* the searchable fields of a candidate
FieldsOf(note) ==
    [title |-> note.title, short_title |-> note.short_title, content |-> note.content,
     ai_summary |-> note.ai_summary, ai_tags |-> note.ai_tags,
     ai_entities |-> note.ai_entities]

\* the matched keywords of the candidate at index n
Hits(n) ==
    (CHOOSE t \in KeywordHits :
        t[1] = FieldsOf(notes[n]) /\ t[2] = <<keywords, semanticQuery>>)[3]

\* the candidates the inclusion filter admits
Admitted ==
    {n \in 1..Len(notes) :
        \/ Len(Hits(n)) > 0
        \/ /\ Len(queryEmbedding) > 0
           /\ RGeq(Similarity(notes[n], queryEmbedding), SEMANTIC_SIMILARITY_THRESHOLD)}

\* the candidates that have an embedding
Embedded == {n \in 1..Len(notes) : Len(ParseEmbedding(notes[n].embedding)) > 0}

\* C9: when the inclusion filter admits a candidate, the ranked list holds
\* exactly the admitted candidates, each once, and total counts them all.
InclusionFilterExact ==
    rphase = "done" =>
        LET admitted == Admitted
        IN  admitted # {} =>
                /\ RankedNotes(ranked) = admitted
                /\ Len(ranked) = Cardinality(admitted)
                /\ total = Cardinality(admitted)

\* C9 witness: two candidates without a keyword hit, one with similarity
\* exactly the threshold and one below it; only the first is ranked
InclusionFilterWitness ==
    /\ rphase = "done"
    /\ Len(notes) = 2
    /\ Len(queryEmbedding) > 0
    /\ \A n \in 1..2 :
          Len(NoteMatchingKeywords(notes[n], KeywordList(keywords, semanticQuery))) = 0
    /\ Similarity(notes[1], queryEmbedding) = SEMANTIC_SIMILARITY_THRESHOLD
    /\ RLess(Zero, Similarity(notes[2], queryEmbedding))
    /\ RLess(Similarity(notes[2], queryEmbedding), SEMANTIC_SIMILARITY_THRESHOLD)
    /\ RankedNotes(ranked) = {1}

\* C10: when the inclusion filter admits no candidate and there is a query
\* embedding, the ranked list holds exactly the candidates with an embedding,
\* each once, with no matched keyword and score equal to its cosine similarity,
\* in non-increasing order of similarity; a page that starts at 0 and is long
\* enough returns that whole list.
SemanticFallback ==
    (rphase = "done" /\ Len(queryEmbedding) > 0 /\ Admitted = {}) =>
        /\ RankedNotes(ranked) = Embedded
        /\ Len(ranked) = Cardinality(Embedded)
        /\ total = Len(ranked)
        /\ \A n \in 1..Len(ranked) :
              /\ ranked[n].matched_keywords = <<>>
              /\ ranked[n].similarity =
                    CosineSimilarity(queryEmbedding,
                                     ParseEmbedding(notes[ranked[n].note].embedding))
              /\ ranked[n].score = ranked[n].similarity
        /\ \A n \in 1..Len(ranked) - 1 :
              RGeq(ranked[n].similarity, ranked[n + 1].similarity)
        /\ ((offset = 0 /\ limit >= total) => pageItems = ranked)

\* C10 witness: no candidate admitted, both have an embedding and the second
\* is the more similar; the fallback returns the second before the first
SemanticFallbackWitness ==
    /\ rphase = "done"
    /\ Admitted = {}
    /\ Len(queryEmbedding) > 0
    /\ Embedded = {1, 2}
    /\ RLess(Similarity(notes[1], queryEmbedding), Similarity(notes[2], queryEmbedding))
    /\ Len(pageItems) = 2
    /\ pageItems[1].note = 2
    /\ pageItems[2].note = 1
    /\ RLess(pageItems[2].score, Zero)

\* the candidate at index n matches the first keyword
IsDirect(n) == DirectMatch(DirectQueryLower(keywords, semanticQuery), Hits(n))

\* the number of keyword hits of every candidate, by index
HitCounts == [n \in 1..Len(notes) |-> Len(Hits(n))]

\* whether each candidate matches the first keyword, by index
DirectFlags == [n \in 1..Len(notes) |-> IsDirect(n)]

\* r is in non-increasing order of the rank key, no candidate without a direct
\* match is before one with it, and no candidate without a keyword hit is
\* before one with it
InRankOrder(r, direct, hitCount) ==
    /\ \A n \in 1..Len(r) - 1 : ~KeyLess(r[n].rank_key, r[n + 1].rank_key, 1)
    /\ \A i \in 1..Len(r) : \A j \in (i + 1)..Len(r) :
          /\ direct[r[j].note] => direct[r[i].note]
          /\ hitCount[r[j].note] > 0 => hitCount[r[i].note] > 0

\* C11: the ranked list and the returned page are in non-increasing
\* lexicographic order of (directMatch, matchedCount, textMatch, similarity,
\* score), the key being that of the candidate; so direct matches come first
\* and keyword hits come before pure-semantic results.
RankingOrder ==
    rphase = "done" =>
        \E direct \in {DirectFlags} : \E hitCount \in {HitCounts} :
            /\ InRankOrder(ranked, direct, hitCount)
            /\ InRankOrder(pageItems, direct, hitCount)
            /\ \A n \in 1..Len(ranked) :
                  \E e \in {ranked[n]} :
                      /\ e.rank_key[1] = (IF direct[e.note] THEN Rat(1, 1) ELSE Zero)
                      /\ e.rank_key[2] = Rat(hitCount[e.note], 1)
                      /\ e.rank_key[3] = (IF hitCount[e.note] > 0 THEN Rat(1, 1) ELSE Zero)
                      /\ e.rank_key[4] = e.similarity
                      /\ e.rank_key[5] = e.score

\* C11 witness: the first candidate is pure-semantic with the higher
\* similarity, the second has a keyword hit; the second is returned first
RankingOrderWitness ==
    /\ rphase = "done"
    /\ Len(pageItems) = 2
    /\ pageItems[1].note = 2
    /\ pageItems[2].note = 1
    /\ Len(Hits(2)) > 0
    /\ Len(Hits(1)) = 0
    /\ RLess(pageItems[1].similarity, pageItems[2].similarity)

\* C12: with no query embedding the ranked list holds exactly the candidates
\* with a keyword hit, each once (none when no candidate has a hit), and every
\* result, ranked or returned, has similarity 0 and match type keyword.
KeywordOnlyDegradation ==
    (rphase = "done" /\ Len(queryEmbedding) = 0) =>
        LET withHit == {n \in 1..Len(notes) : Len(Hits(n)) > 0}
        IN  /\ RankedNotes(ranked) = withHit
            /\ Len(ranked) = Cardinality(withHit)
            /\ total = Cardinality(withHit)
            /\ \A n \in 1..Len(ranked) :
                  /\ ranked[n].similarity = Zero
                  /\ ranked[n].match_type = "keyword"
            /\ \A n \in 1..Len(pageItems) :
                  /\ pageItems[n].similarity = Zero
                  /\ pageItems[n].match_type = "keyword"

\* C12 witness: no query embedding; both candidates store the most similar
\* embedding, the first has no keyword hit and the second has one; only the
\* second is returned, with similarity 0
KeywordOnlyWitness ==
    /\ rphase = "done"
    /\ Len(queryEmbedding) = 0
    /\ Len(notes) = 2
    /\ \A n \in 1..2 : ParseEmbedding(notes[n].embedding) = <<3, 4, 0, 0>>
    /\ Len(Hits(1)) = 0
    /\ Len(Hits(2)) > 0
    /\ Len(pageItems) = 1
    /\ pageItems[1].note = 2
    /\ pageItems[1].similarity = Zero

-----------------------------------------------------------------------------
(* Properties of the related notes *)

\* the index in relCandidates of the note at index n of the list without X
CandidateIndex(n) == IF relId > 0 /\ n >= relId THEN n + 1 ELSE n

\* the results of _semantic_search_notes, their notes named by candidate index
AsCandidates(r) ==
    [n \in 1..Len(r) |->
        [note |-> CandidateIndex(r[n].note), match_type |-> r[n].match_type,
         matched_keywords |-> r[n].matched_keywords,
         similarity |-> r[n].similarity, score |-> r[n].score]]

\* the results of _related_notes, without the rank key
Results(r) ==
    [n \in 1..Len(r) |->
        [note |-> r[n].note, match_type |-> r[n].match_type,
         matched_keywords |-> r[n].matched_keywords,
         similarity |-> r[n].similarity, score |-> r[n].score]]

\* C13: on the candidates without X, the keywords of X, the same query
\* embedding, threshold and limit, _related_notes and _semantic_search_notes
\* give the same ordered results with the same match type, matched keywords,
\* similarity and score, and the same total.
RelatedEqualsSearch ==
    relPhase = "both" =>
        /\ Results(relItems) = AsCandidates(pageItems)
        /\ Results(relRanked) = AsCandidates(ranked)
        /\ relTotal = total

\* C14: the mode is semantic exactly when some included result has no matched
\* keyword, and keyword otherwise.
ModeLabel ==
    relPhase \in {"related", "both"} =>
        /\ relMode \in {"semantic", "keyword"}
        /\ relMode = "semantic" <=>
              \E n \in 1..Len(relRanked) : relRanked[n].matched_keywords = <<>>

-----------------------------------------------------------------------------
(* Properties of the clusterer *)

\* the step is a call of add_note
IsAddNote == Len(addedNotes') = Len(addedNotes) + 1

\* the note given to the call of the step
AddedNote == addedNotes'[Len(addedNotes')]

\* the clusters whose leader is more similar to vec than the threshold
AboveThreshold(vec) ==
    {i \in 1..Len(clusters) :
        RLess(threshold, ClusterCosineSimilarity(vec, clusters[i].centroid))}

\* a call of add_note with a non-empty embedding appends the note to a cluster
\* of highest similarity among those above the threshold and changes nothing
\* else, or, when there is none, appends one cluster led by the note
AssignsOrOpens ==
    (IsAddNote /\ Len(NoteGetEmbedding(AddedNote)) > 0) =>
        LET vec == NoteGetEmbedding(AddedNote)
            above == AboveThreshold(vec)
        IN  IF above # {}
            THEN \E b \in above :
                    /\ \A i \in above :
                          RGeq(ClusterCosineSimilarity(vec, clusters[b].centroid),
                               ClusterCosineSimilarity(vec, clusters[i].centroid))
                    /\ clusters' = [clusters EXCEPT ![b].members = Append(@, AddedNote)]
            ELSE /\ Len(clusters') = Len(clusters) + 1
                 /\ SubSeq(clusters', 1, Len(clusters)) = clusters
                 /\ clusters'[Len(clusters')].centroid = vec
                 /\ clusters'[Len(clusters')].leader_title = NoteGetTitle(AddedNote)
                 /\ clusters'[Len(clusters')].members = <<AddedNote>>

\* C15: every add_note with a non-empty embedding either appends the note to
\* the existing cluster of highest similarity among those strictly above the
\* threshold, or, when no leader is strictly above it, appends one new cluster
\* whose leader vector and title are the note's.
ClusterAssignment == [][AssignsOrOpens]_vars

\* C15 witness: two leaders are above the threshold for the last note, and it
\* joined the second, the more similar one
ClusterAssignmentWitness ==
    /\ lastCall = "add_note"
    /\ Len(addedNotes) = 3
    /\ Len(clusters) = 2
    /\ threshold = Rat(3, 5)
    /\ clusters[1].centroid = <<1, 0, 0>>
    /\ clusters[2].centroid = <<1, 2, 2>>
    /\ addedNotes[3].embedding = <<2, 2, 1>>
    /\ clusters[1].members = <<addedNotes[1]>>
    /\ clusters[2].members = <<addedNotes[2], addedNotes[3]>>

\* a is a prefix of b
IsPrefix(a, b) == Len(a) <= Len(b) /\ SubSeq(b, 1, Len(a)) = a

\* every cluster keeps its position, id, leader vector and leader title, its
\* members are a prefix of its members after the step, and no cluster goes
OnlyExtended ==
    /\ Len(clusters') >= Len(clusters)
    /\ \A i \in 1..Len(clusters) :
          /\ clusters'[i].id = clusters[i].id
          /\ clusters'[i].centroid = clusters[i].centroid
          /\ clusters'[i].leader_title = clusters[i].leader_title
          /\ IsPrefix(clusters[i].members, clusters'[i].members)

\* C16: across any sequence of calls every existing cluster keeps its id,
\* leader vector and leader title, its member list only grows at the end, and
\* the number of clusters never decreases.
ClustersOnlyExtended == [][OnlyExtended]_vars

\* C16 witness: after four calls there are two clusters, the first of which
\* was joined twice after the second was opened
ClustersOnlyExtendedWitness ==
    /\ Len(addedNotes) = 4
    /\ Len(clusters) = 2
    /\ clusters[1].members = <<addedNotes[1], addedNotes[3], addedNotes[4]>>
    /\ clusters[2].members = <<addedNotes[2]>>
    /\ clusters[1].centroid = addedNotes[1].embedding
    /\ addedNotes[4].embedding # addedNotes[1].embedding

\* C17: the cluster at position i of the cluster list, counted from 0, has id
\* i; so ids are unique and follow creation order from 0.
ClusterIdsArePositions ==
    \A n \in 1..Len(clusters) : clusters[n].id = n - 1

\* C17 witness: three clusters with ids 0, 1, 2, the third opened by the
\* fourth call after a note that joined the first cluster
ClusterIdsWitness ==
    /\ Len(addedNotes) = 4
    /\ Len(clusters) = 3
    /\ clusters[1].members = <<addedNotes[1], addedNotes[3]>>
    /\ clusters[3].members = <<addedNotes[4]>>
    /\ clusters[3].id = 2

\* a call of add_note with a missing or empty embedding leaves the cluster
\* list as it was
SkipsWithoutEmbedding ==
    (IsAddNote /\ Len(NoteGetEmbedding(AddedNote)) = 0) => clusters' = clusters

\* C18: add_note of a note with a missing or empty embedding returns and
\* leaves the cluster list (count, ids, leaders, member lists) unchanged.
NoEmbeddingIsSkipped == [][SkipsWithoutEmbedding]_vars

\* C18 witness: after a first note opened a cluster, a note with an empty
\* embedding and a note with no embedding were added; the cluster list still
\* holds the first note alone
NoEmbeddingWitness ==
    /\ lastCall = "add_note"
    /\ Len(addedNotes) = 3
    /\ addedNotes[2].has_embedding /\ addedNotes[2].embedding = <<>>
    /\ ~addedNotes[3].has_embedding
    /\ Len(clusters) = 1
    /\ clusters[1].members = <<addedNotes[1]>>

\* the step is a call of get_micro_clusters_for_llm
IsGetMicroClusters ==
    lastCall # "get_micro_clusters_for_llm" /\ lastCall' = "get_micro_clusters_for_llm"

\* the call returns one entry per cluster, in order, with the cluster's id, the
\* titles of its first three members at most, in order, and its member count,
\* and leaves the clusterer as it was
SummarizesClusters ==
    IsGetMicroClusters =>
        /\ UNCHANGED <<threshold, clusters, addedNotes>>
        /\ Len(summary') = Len(clusters)
        /\ \A n \in 1..Len(clusters) :
              LET members == clusters[n].members
                  titles == summary'[n].representative_titles
              IN  /\ summary'[n].cluster_id = clusters[n].id
                  /\ summary'[n].count = Len(members)
                  /\ Len(titles) <= 3
                  /\ Len(titles) = (IF Len(members) < 3 THEN Len(members) ELSE 3)
                  /\ \A k \in 1..Len(titles) :
                        titles[k] = (IF members[k].has_title THEN members[k].title
                                     ELSE "Untitled")

\* C19: get_micro_clusters_for_llm returns one entry per cluster in cluster
\* order with the cluster's id, the titles of the first min(3, n) members in
\* insertion order and the member count, and does not change the clusterer.
ClusterSummaries == [][SummarizesClusters]_vars

\* C19 witness: a cluster of four members is summarized by its first three
\* titles and count 4
ClusterSummariesWitness ==
    /\ lastCall = "get_micro_clusters_for_llm"
    /\ Len(clusters) = 1
    /\ Len(clusters[1].members) = 4
    /\ Len(summary) = 1
    /\ summary[1].count = 4
    /\ summary[1].representative_titles = <<"n1", "n2", "n3">>

-----------------------------------------------------------------------------
(* Properties of analyze_note *)

\* the outcomes that are failures of the completion provider: an exception, a
\* non-success status, a null response, a text that holds no JSON object
FailureClasses == {"exception", "status", "null", "unparsable"}

\* the run had no completion: AI is disabled, no provider is configured, or
\* the provider that was called failed
ProviderFailed ==
    \/ ~(anEnv.AI_ENABLED /\ anUseAi)
    \/ (anGeneration.kind = "not called" /\ anPost.kind = "not called")
    \/ (anGeneration.kind # "not called" /\ anGeneration.class \in FailureClasses)
    \/ (anPost.kind # "not called" /\ anPost.class \in FailureClasses)

\* C20: whatever way the completion provider fails (AI disabled, provider not
\* configured, null response, non-success status, unparsable text, exception),
\* analyze_note raises nothing and returns the heuristic fallback: a dict
\* holding the seven keys short_title, title, category, tags, summary, entities
\* and sensitivity, the sensitivity being "high" iff detect_sensitive(content).
ProviderFailuresFallBack ==
    (anPhase \in {"returned", "raised"} /\ ProviderFailed) =>
        /\ anPhase = "returned"
        /\ anError = "none"
        /\ anResult = HeuristicAnalysis(anContent, anCategories)
        /\ {anResult.v[n][1] : n \in 1..Len(anResult.v)}
              = {AnalysisKeys[n] : n \in 1..Len(AnalysisKeys)}
        /\ (Subscript(anResult, AnalysisKeys[7]) = Str(High)) <=> DetectSensitive(anContent)

\* the parsed object of the completion analyze_note received, Null when it
\* received no text or the text holds no JSON object
ParsedCompletion ==
    IF anGeneration.kind # "not called"
    THEN IF anGeneration.kind = "response" /\ anGeneration.status_code = 200
            /\ anGeneration.content.t = "str"
         THEN ParseQwenJson(anGeneration.content.v)
         ELSE Null
    ELSE IF anPost.kind # "not called"
    THEN With(OpenaiChat(anEnv, anPost), LAMBDA response :
         IF response.raised = "none" /\ response.v.t = "str" /\ Len(response.v.v) > 0
         THEN ParseQwenJson(response.v.v)
         ELSE Null)
    ELSE Null

\* the value has the type the analysis key at index k is read with: a string,
\* a list of strings for tags, an object for entities
RightlyTyped(k, value) ==
    IF k = 4 THEN value.t = "list" /\ \A n \in 1..Len(value.v) : value.v[n].t = "str"
    ELSE IF k = 6 THEN value.t = "dict"
    ELSE value.t = "str"

\* the parsed completion is an object that lacks one of the seven keys or
\* holds a value of another type under one of them
ShapeError(parsed) ==
    /\ parsed.t = "dict"
    /\ \E k \in 1..Len(AnalysisKeys) :
          With(Subscript(parsed, AnalysisKeys[k]), LAMBDA value :
               value.t = "caught" \/ ~RightlyTyped(k, value))

\* C21: when the completion parses as a JSON object that lacks a recognized
\* key or holds a wrongly typed value, analyze_note returns the complete
\* heuristic fallback, so that no field of the analysis comes from the
\* response.
ShapeErrorsFallBack ==
    (anPhase = "returned" /\ ShapeError(ParsedCompletion)) =>
        anResult = HeuristicAnalysis(anContent, anCategories)

-----------------------------------------------------------------------------
(* Properties of the pages, the embeddings and the labels of the ranker *)

\* the candidates the ranked list holds: those the inclusion filter admits,
\* or, when it admits none and there is a query embedding, those that have an
\* embedding
Included ==
    IF Admitted # {} THEN Admitted
    ELSE IF Len(queryEmbedding) > 0 THEN Embedded
    ELSE {}

\* the pages of lim results of r from offset off on, one after the other
RECURSIVE PagesFrom(_, _, _)
PagesFrom(r, lim, off) ==
    IF off >= Len(r) THEN <<>>
    ELSE Slice(r, off, lim) \o PagesFrom(r, lim, off + lim)

\* C22: total is the number of ranked results whatever limit and offset are,
\* the returned items are the ranked results at positions offset + 1 to
\* offset + limit as far as they exist, and the successive pages of limit
\* results put one after the other are the ranked list, no result twice and
\* none left out.
Pagination ==
    rphase = "done" =>
        /\ total = Len(ranked)
        /\ total = Cardinality(Included)
        /\ Len(pageItems) = (IF offset >= total THEN 0
                             ELSE IF total - offset < limit THEN total - offset
                             ELSE limit)
        /\ \A n \in 1..Len(pageItems) : pageItems[n] = ranked[offset + n]
        /\ PagesFrom(ranked, limit, 0) = ranked
        /\ \A i, j \in 1..Len(ranked) : ranked[i].note = ranked[j].note => i = j

\* C22 witness: two ranked results and the second page of one result, which
\* holds the second result only
PaginationWitness ==
    /\ rphase = "done"
    /\ total = 2
    /\ limit = 1
    /\ offset = 1
    /\ pageItems = <<ranked[2]>>
    /\ ranked[1] # ranked[2]

\* the candidates whose stored embedding has another length than the query
\* embedding
Mismatched ==
    {n \in 1..Len(notes) :
        /\ Len(queryEmbedding) > 0
        /\ Len(ParseEmbedding(notes[n].embedding)) > 0
        /\ Len(ParseEmbedding(notes[n].embedding)) # Len(queryEmbedding)}

\* C23: a candidate whose embedding has another length than the query
\* embedding is treated as one without an embedding in every ranking path:
\* it is ranked only when it has a keyword hit, and then with similarity 0 and
\* the label keyword.
MismatchIsNoEmbedding ==
    rphase = "done" =>
        \A k \in 1..Len(ranked) :
            ranked[k].note \in Mismatched =>
                /\ Len(Hits(ranked[k].note)) > 0
                /\ ranked[k].similarity = Zero
                /\ ranked[k].match_type = "keyword"

\* the label of the ranked entry e agrees with its keyword hit and with its
\* similarity having reached the threshold
RightlyLabelled(e, hit) ==
    \E reached \in {RGeq(e.similarity, SEMANTIC_SIMILARITY_THRESHOLD)} :
        /\ e.match_type \in {"keyword", "semantic", "keyword+semantic"}
        /\ e.match_type = "semantic" => (~hit /\ reached)
        /\ e.match_type = "keyword+semantic" <=> (hit /\ reached)
        /\ e.match_type = "keyword" <=> (hit /\ ~reached)

\* C24: a result is labelled semantic only if it has no keyword hit and its
\* similarity reached the threshold, keyword+semantic iff it has a keyword hit
\* and its similarity reached the threshold, and keyword iff it has a keyword
\* hit and its similarity did not.
MatchClassification ==
    rphase = "done" =>
        \A k \in 1..Len(ranked) : RightlyLabelled(ranked[k], Len(Hits(ranked[k].note)) > 0)

-----------------------------------------------------------------------------
(* Properties of the password-shaped detector *)

\* the number of character classes of value: lower-case letters, upper-case
\* letters, digits, symbols (anything else)
CharClasses(value) ==
    Cardinality({c \in {"lower", "upper", "digit", "symbol"} :
        \E i \in 1..Len(value) :
            \/ c = "lower" /\ value[i] \in Lower
            \/ c = "upper" /\ value[i] \in Upper
            \/ c = "digit" /\ value[i] \in Digit
            \/ c = "symbol" /\ value[i] \notin Alnum})

\* C25: a candidate that is no placeholder is accepted iff it has at least 8
\* characters and either at least 3 character classes and a strong symbol, or
\* all 4 character classes, whatever its symbols are.
PasswordRule ==
    (pwPhase = "done" /\ ~IsPlaceholder(pwValue)) =>
        (pwResult <=>
            /\ Len(pwValue) >= 8
            /\ \/ CharClasses(pwValue) >= 3 /\ HasChar(pwValue, StrongSymbol)
               \/ CharClasses(pwValue) = 4)

-----------------------------------------------------------------------------
(* Properties of the order of the notes *)

\* the partition of the notes made by the clusters cs: the sets of member ids
PartitionOf(cs) ==
    {{cs[n].members[k].id : k \in 1..Len(cs[n].members)} : n \in 1..Len(cs)}

-----------------------------------------------------------------------------
(* Properties of two interleaved calls of add_note *)

\* both calls have returned
BothReturned == \A c \in Callers : conPc[c] = "done"

\* what the two calls leave when one runs after the other, in either order
SerialOutcomes ==
    {AddAll(conPrior, <<conNotes[1], conNotes[2]>>, conThreshold),
     AddAll(conPrior, <<conNotes[2], conNotes[1]>>, conThreshold)}

\* two clusters have the same id
DuplicateId ==
    \E j, k \in 1..Len(conClusters) : j # k /\ conClusters[j].id = conClusters[k].id

\* a cluster was opened by a note although an earlier leader is above the
\* threshold for it
NeedlessCluster ==
    \E j, k \in 1..Len(conClusters) :
        /\ j < k
        /\ RLess(conThreshold,
                 ClusterCosineSimilarity(conClusters[k].centroid, conClusters[j].centroid))

\* C27: when the two calls of add_note are serialized, no two clusters have
\* the same id, no note opens a cluster although a leader above the threshold
\* for it exists, and the clusters the two calls leave are those of one of
\* the two serial orders; that interleaved calls reach a state no serial
\* order produces is shown by the witness.
SingleWriter ==
    serialized =>
        /\ ~DuplicateId
        /\ ~NeedlessCluster
        /\ BothReturned => conClusters \in SerialOutcomes

\* C27 witness: the two calls interleaved and returned, and they leave two
\* clusters with the same id, the second opened for a note that is above the
\* threshold for the leader of the first, which no serial order leaves
SingleWriterWitness ==
    /\ ~serialized
    /\ conPc = [c \in Callers |-> "done"]
    /\ DuplicateId
    /\ NeedlessCluster
    /\ conClusters \notin SerialOutcomes

-----------------------------------------------------------------------------
(* Invariants of the serialized clusterer *)

\* the places <<cluster, position>> where the note is a member
PlacesOf(note) ==
    {<<n, k>> \in (1..Len(clusters)) \X (1..MaxAdds) :
        k <= Len(clusters[n].members) /\ clusters[n].members[k] = note}

\* the calls of add_note that were given a non-empty embedding
Accepted == {n \in 1..Len(addedNotes) : Len(NoteGetEmbedding(addedNotes[n])) > 0}

RECURSIVE SumOf(_, _)
SumOf(f, n) == IF n = 0 THEN 0 ELSE f[n] + SumOf(f, n - 1)

\* C28: after any sequence of add_note calls every note given with a
\* non-empty embedding is a member of exactly one cluster, once; a skipped
\* note is a member of none; every member was added; every cluster has a
\* first member whose embedding and title are the cluster's leader vector and
\* leader title; and the member counts, also those of
\* get_micro_clusters_for_llm, sum to the number of accepted calls.
PartitionInvariant ==
    lastCall # "off" =>
        /\ \A n \in 1..Len(addedNotes) :
              Cardinality(PlacesOf(addedNotes[n])) = (IF n \in Accepted THEN 1 ELSE 0)
        /\ \A n \in 1..Len(clusters) :
              /\ Len(clusters[n].members) >= 1
              /\ \A k \in 1..Len(clusters[n].members) :
                    \E a \in Accepted : addedNotes[a] = clusters[n].members[k]
              /\ clusters[n].centroid = NoteGetEmbedding(clusters[n].members[1])
              /\ clusters[n].leader_title = NoteGetTitle(clusters[n].members[1])
        /\ SumOf([n \in 1..Len(clusters) |-> Len(clusters[n].members)], Len(clusters))
              = Cardinality(Accepted)
        /\ lastCall = "get_micro_clusters_for_llm" =>
              SumOf([n \in 1..Len(summary) |-> summary[n].count], Len(summary))
                  = Cardinality(Accepted)

\* C28 witness: four calls, one of them skipped, left two clusters of two and
\* one members, the first led by a note without a title
PartitionWitness ==
    /\ lastCall = "add_note"
    /\ Len(addedNotes) = 4
    /\ Cardinality(Accepted) = 3
    /\ Len(clusters) = 2
    /\ Len(clusters[1].members) = 2
    /\ Len(clusters[2].members) = 1
    /\ ~clusters[1].members[1].has_title
    /\ clusters[1].leader_title = "Untitled"

\* the cosine similarity of the note to the leader of the cluster at index n
SimilarityToLeader(note, n) ==
    ClusterCosineSimilarity(NoteGetEmbedding(note), clusters[n].centroid)

\* the note of the step joins the cluster of lowest index among those whose
\* leader is most similar to it, when one is above the threshold
JoinsLowestOfBest ==
    (IsAddNote /\ Len(NoteGetEmbedding(AddedNote)) > 0
               /\ AboveThreshold(NoteGetEmbedding(AddedNote)) # {}) =>
        \E b \in AboveThreshold(NoteGetEmbedding(AddedNote)) :
            /\ \A i \in 1..Len(clusters) :
                  /\ RGeq(SimilarityToLeader(AddedNote, b), SimilarityToLeader(AddedNote, i))
                  /\ SimilarityToLeader(AddedNote, i) = SimilarityToLeader(AddedNote, b)
                        => clusters[b].id <= clusters[i].id
            /\ clusters'[b].members = Append(clusters[b].members, AddedNote)

\* the leaders of two distinct clusters are at most the threshold apart in
\* cosine similarity, and every member after the first is above the threshold
\* for the leader of its cluster
SeparatedAndClose ==
    /\ \A i, j \in 1..Len(clusters) :
          i # j => ~RLess(threshold,
                          ClusterCosineSimilarity(clusters[i].centroid, clusters[j].centroid))
    /\ \A n \in 1..Len(clusters) : \A k \in 2..Len(clusters[n].members) :
          RLess(threshold, SimilarityToLeader(clusters[n].members[k], n))

\* C29: in every state of a serialized clusterer the leaders of two distinct
\* clusters have cosine similarity at most the threshold and every non-leader
\* member has cosine similarity above the threshold to its leader; a note for
\* which several leaders tie for the highest similarity joins the one with
\* the lowest id.
LeaderSeparation == []SeparatedAndClose /\ [][JoinsLowestOfBest]_vars

\* C29 witness: the leaders of the first two clusters are equally similar, and
\* above the threshold, to the third note, which joined the first
LeaderTieWitness ==
    /\ lastCall = "add_note"
    /\ Len(addedNotes) = 3
    /\ Len(clusters) = 2
    /\ clusters[1].members = <<addedNotes[1], addedNotes[3]>>
    /\ clusters[2].members = <<addedNotes[2]>>
    /\ SimilarityToLeader(addedNotes[3], 1) = SimilarityToLeader(addedNotes[3], 2)
    /\ RLess(threshold, SimilarityToLeader(addedNotes[3], 1))

-----------------------------------------------------------------------------
(* Properties of the merged mapping of summarize_notes and answer_question *)

\* the placeholder / original pairs of a mapping
Pairs(m) == {m[k] : k \in 1..Len(m)}

\* the completion repeats the anonymized text of part n
Repeats(n) ==
    /\ mgCompletion.kind = "text"
    /\ mgCompletion.text = mgParts[n].text
    /\ Len(Strip(mgCompletion.text)) > 0

\* C30: when summarize_notes or answer_question has returned, every
\* placeholder emitted for a note or for the question maps in the merged
\* mapping to the original it replaced in that text, and a completion that
\* repeats an anonymized text is restored as the mapping of that text alone
\* restores it.
MergedMappingsReversible ==
    mgPhase = "returned" =>
        \A n \in 1..Len(mgParts) :
            /\ Pairs(mgParts[n].mapping) \subseteq Pairs(mgMapping)
            /\ Repeats(n) =>
                   mgResult = RestoreSensitiveData(Strip(mgCompletion.text),
                                                   mgParts[n].mapping)

====
